---- MODULE Spec2Model ----
(***************************************************************************)
(* VFX Flow: the node functions of nodes.py (FlowLogin, ProjectBrowser,    *)
(* ShotBrowser, TaskSelector, PublishToFlow, FilenameFromFlow, AddNote)    *)
(* over the process-wide session cache _flow_sessions and the FLOW_CONTEXT *)
(* dictionaries that the host threads from node to node.                   *)
(*                                                                         *)
(* The vendor client (shotgun_api3) is external: every remote call either  *)
(* raises or returns, and what it returns is chosen by the environment.    *)
(* Each node call is one atomic step; `last' records the call that was     *)
(* made, the values it returned and the remote calls it issued.            *)
(*                                                                         *)
(* Glyphs of the source's messages are written in ASCII: "[v]" is the      *)
(* check mark, "[x]" the cross mark and "[||]" the pause sign.             *)
(***************************************************************************)
EXTENDS Integers, Sequences, FiniteSets, TLC

VARIABLES
    HAS_SHOTGUN,     \* nodes.py: whether `import shotgun_api3' succeeded
    flow_sessions,   \* nodes.py: _flow_sessions, cache_key -> client handle
    clients,         \* number of vendor clients constructed so far
    heap,            \* the FLOW_CONTEXT dictionaries that exist, by reference
    wire,            \* the context reference the host passes to the next node
    chain,           \* the selection nodes that produced the wire's context
    last,            \* the most recent call: inputs, outputs, remote calls
    login_sessions,  \* server.py: _login_sessions, in insertion order
    sessions,        \* server.py: the session dictionaries, by their client
    pending,         \* server.py: the select requests awaiting their body
    logins,          \* the successful HTTP logins since the last logout
    threads          \* login() calls running in threads of their own

vars == <<HAS_SHOTGUN, flow_sessions, clients, heap, wire, chain, last,
          login_sessions, sessions, pending, logins, threads>>

\* the state of server.py, and the threads that race on _flow_sessions
srv == <<login_sessions, sessions, pending, logins>>

----------------------------------------------------------------------------
(* Bounds of the model *)

\* vendor clients that may be constructed in one run
MaxClients == 2
\* FLOW_CONTEXT dictionaries that may exist at the same time
MaxCtx == 2

----------------------------------------------------------------------------
(* Python values *)

\* None, where a dictionary or a string is expected
None == [none |-> TRUE]
\* None, where a client handle (1..clients) is expected
NoSession == 0
\* None, where a context reference (1..MaxCtx) is expected
NoRef == 0
\* None, where an entity id or a number is expected
NoneInt == -1
\* str(None), as a Python f-string renders it
NoneStr == "None"

CHECK == "[v]"
CROSS == "[x]"
PAUSE == "[||]"

\* d[k] = v on a dictionary
Put(d, k, v) == [x \in DOMAIN d \cup {k} |-> IF x = k THEN v ELSE d[x]]
\* del d[k]
Del(d, k) == [x \in DOMAIN d \ {k} |-> d[x]]
\* the empty dictionary
EmptyDict == [x \in {} |-> NoSession]

\* s.startswith(p)
StartsWith(s, p) == Len(s) >= Len(p) /\ SubSeq(s, 1, Len(p)) = p

\* p in s
Contains(s, p) ==
    \E i \in 1..(Len(s) - Len(p) + 1) : SubSeq(s, i, i + Len(p) - 1) = p

\* a remote call as the vendor client sees it: method, entity type, the
\* client it was made on, and whether it returned (exc = "") or raised
Call(m, t, sg, exc) == [m |-> m, t |-> t, sg |-> sg, exc |-> exc]

\* the messages of the exceptions the vendor client raises
Faults == {"timed out"}
\* what a remote call may do: return ("") or raise one of Faults
Outcomes == {""} \cup Faults

----------------------------------------------------------------------------
(* FlowLogin.login *)

Sites == {"https://a.example"}
AuthMethods == {"user", "script"}
ScriptNames == {"comfy"}
Logins == {"", "al"}
Secrets == {"", "s1"}
\* the passwords and API keys a caller of login() may give
LoginSecrets == Secrets \cup {"s2"}

\* lines 97-106: the credentials the chosen method needs are missing
MissingAnd(auth_method, api_key, login, password) ==
    IF auth_method = "user" THEN login = "" /\ password = "" ELSE api_key = ""
MissingCredentials(auth_method, api_key, login, password) ==
    IF auth_method = "user" THEN login = "" \/ password = "" ELSE api_key = ""

\* lines 100, 105: cache_key
CacheKey(site_url, auth_method, script_name, login) ==
    IF auth_method = "user"
    THEN site_url \o ":user:" \o login
    ELSE site_url \o ":script:" \o script_name

\* lines 101, 106: auth_info
AuthInfo(auth_method, script_name, login) ==
    IF auth_method = "user" THEN "User: " \o login ELSE "Script: " \o script_name

\* line 109: cache_key in _flow_sessions
CachedNever(d, key) == FALSE
Cached(d, key) == key \in DOMAIN d

\* line 116: del _flow_sessions[cache_key]
EvictNothing(d, key) == d
Evict(d, key) == Del(d, key)

\* lines 118-141: authenticate, probe, insert.  `d' is the cache as the
\* lookup left it, `pre' the remote calls already made by this login.
Authenticate(d, n, pre, key, site_url, auth_method, auth_info, ctor, probe) ==
    LET sg == n + 1
        made == Append(pre, Call("Shotgun", auth_method, IF ctor = "" THEN sg ELSE NoSession, ctor))
        probed == Append(made, Call("find_one", "Project", sg, probe))
    IN  IF ctor # ""
        THEN [ret |-> NoSession, status |-> "ERROR: " \o ctor,
              sessions |-> d, clients |-> n, calls |-> made]
        ELSE IF probe # ""
        THEN [ret |-> NoSession, status |-> "ERROR: " \o probe,
              sessions |-> d, clients |-> sg, calls |-> probed]
        ELSE [ret |-> sg,
              status |-> CHECK \o " Connected\n" \o site_url \o "\n" \o auth_info,
              sessions |-> Put(d, key, sg), clients |-> sg, calls |-> probed]

\* login() with the secret made part of the identity key
LoginSecretKeyed(has, d, n, site_url, auth_method, script_name, api_key, login, password, cached, ctor, probe) ==
    LET key == CacheKey(site_url, auth_method, script_name, login) \o ":"
                 \o (IF auth_method = "user" THEN password ELSE api_key)
        auth_info == AuthInfo(auth_method, script_name, login)
        fail(msg) == [ret |-> NoSession, status |-> msg, sessions |-> d,
                      clients |-> n, calls |-> <<>>]
    IN  IF ~has
        THEN fail("ERROR: shotgun_api3 not installed\npip install shotgun_api3")
        ELSE IF MissingCredentials(auth_method, api_key, login, password)
        THEN IF auth_method = "user"
             THEN fail("ERROR: login and password required for user auth")
             ELSE fail("ERROR: No API key provided\nSet FLOW_API_KEY env var or enter directly")
        ELSE IF Cached(d, key) /\ cached = ""
        THEN [ret |-> d[key],
              status |-> CHECK \o " Connected (cached)\n" \o site_url \o "\n" \o auth_info,
              sessions |-> d, clients |-> n,
              calls |-> <<Call("find_one", "Project", d[key], cached)>>]
        ELSE IF Cached(d, key)
        THEN Authenticate(Evict(d, key), n, <<Call("find_one", "Project", d[key], cached)>>,
                          key, site_url, auth_method, auth_info, ctor, probe)
        ELSE Authenticate(d, n, <<>>, key, site_url, auth_method, auth_info,
                          ctor, probe)

\* lines 90-141: login() as a function of its arguments, the cache `d', the
\* number `n' of clients constructed so far and what the remote service does:
\* `cached' is the outcome of the probe on the cached client, `ctor' that of
\* shotgun_api3.Shotgun(...), `probe' that of the probe on the new client.
Login(has, d, n, site_url, auth_method, script_name, api_key, login, password, cached, ctor, probe) ==
    LET key == CacheKey(site_url, auth_method, script_name, login)
        auth_info == AuthInfo(auth_method, script_name, login)
        fail(msg) == [ret |-> NoSession, status |-> msg, sessions |-> d,
                      clients |-> n, calls |-> <<>>]
    IN  IF ~has
        THEN fail("ERROR: shotgun_api3 not installed\npip install shotgun_api3")
        ELSE IF MissingCredentials(auth_method, api_key, login, password)
        THEN IF auth_method = "user"
             THEN fail("ERROR: login and password required for user auth")
             ELSE fail("ERROR: No API key provided\nSet FLOW_API_KEY env var or enter directly")
        ELSE IF Cached(d, key)
        THEN LET sg == d[key]
                 test == <<Call("find_one", "Project", sg, cached)>>
             IN  IF cached = ""
                 THEN [ret |-> sg,
                       status |-> CHECK \o " Connected (cached)\n" \o site_url \o "\n" \o auth_info,
                       sessions |-> d, clients |-> n, calls |-> test]
                 ELSE Authenticate(Evict(d, key), n, test, key, site_url,
                                   auth_method, auth_info, ctor, probe)
        ELSE Authenticate(d, n, <<>>, key, site_url, auth_method, auth_info,
                          ctor, probe)

\* the calls of `calls' that construct a vendor client
Constructions(calls) == {i \in DOMAIN calls : calls[i].m = "Shotgun"}

\* login() as a step of the process; a client is constructed only while the
\* run has constructed fewer than MaxClients
FlowLogin(site_url, auth_method, script_name, api_key, login, password, cached, ctor, probe) ==
    \E r \in {Login(HAS_SHOTGUN, flow_sessions, clients, site_url, auth_method,
                             script_name, api_key, login, password, cached, ctor, probe)} :
        /\ Constructions(r.calls) # {} => clients < MaxClients
        /\ flow_sessions' = r.sessions
        /\ clients' = r.clients
        /\ last' = [op |-> "FlowLogin",
                    args |-> [site_url |-> site_url, auth_method |-> auth_method,
                              script_name |-> script_name, api_key |-> api_key,
                              login |-> login, password |-> password,
                              remote |-> [cached |-> cached, ctor |-> ctor, probe |-> probe]],
                    flow |-> NoRef, ret |-> r.ret, id |-> "", info |-> r.status,
                    raised |-> FALSE, calls |-> r.calls]
        /\ UNCHANGED <<srv, threads>>
        /\ UNCHANGED <<HAS_SHOTGUN, heap, wire, chain>>

----------------------------------------------------------------------------
(* FLOW_CONTEXT dictionaries and the host that threads them *)

\* lines 194-205: the keys ProjectBrowser.browse gives a context
Context(session, project, shot, task, user, version_number, resolved_filename) ==
    [session |-> session, project |-> project, shot |-> shot, task |-> task,
     user |-> user, version_number |-> version_number,
     resolved_filename |-> resolved_filename]

\* dict.get(key) and dict.get(key, default)
Get(d, k, default) == IF k \in DOMAIN d THEN d[k] ELSE default

\* the references of the contexts that exist
Live(h) == {r \in DOMAIN h : h[r] # None}
\* a new dictionary gets the lowest free reference
Alloc(h) == CHOOSE r \in DOMAIN h : h[r] = None /\ \A q \in DOMAIN h : q < r => h[q] # None
\* a dictionary nothing refers to any more is gone
Collect(h, keep) == [r \in DOMAIN h |-> IF r \in keep THEN h[r] ELSE None]

\* lines 310, 421: pipe = flow.copy(), a new dictionary with flow's items
CopyAlias(h, flow) == [ref |-> flow, heap |-> h]
Copy(h, flow) == [ref |-> Alloc(h), heap |-> [h EXCEPT ![Alloc(h)] = h[flow]]]

\* pipe[k] = v
Store(h, ref, k, v) == [h EXCEPT ![ref] = Put(h[ref], k, v)]

\* f"{n:03d}"
Pad3(n) ==
    IF n < 0 THEN "-" \o (IF -n < 10 THEN "0" ELSE "") \o ToString(-n)
    ELSE IF n < 10 THEN "00" \o ToString(n)
    ELSE IF n < 100 THEN "0" \o ToString(n)
    ELSE ToString(n)

\* the index of the last "/" of s, 0 when there is none
RECURSIVE LastSlash(_, _)
LastSlash(s, i) ==
    IF i = 0 THEN 0
    ELSE IF SubSeq(s, i, i) = "/" THEN i ELSE LastSlash(s, i - 1)

\* s.rstrip("/")
RECURSIVE RStripSlash(_)
RStripSlash(s) ==
    IF Len(s) > 0 /\ SubSeq(s, Len(s), Len(s)) = "/"
    THEN RStripSlash(SubSeq(s, 1, Len(s) - 1)) ELSE s

\* os.path.dirname and os.path.basename (posixpath)
Dirname(p) ==
    LET head == SubSeq(p, 1, LastSlash(p, Len(p)))
    IN  IF RStripSlash(head) = "" THEN head ELSE RStripSlash(head)
Basename(p) == SubSeq(p, LastSlash(p, Len(p)) + 1, Len(p))

\* "\n".join(lines)
RECURSIVE JoinLines(_)
JoinLines(lines) ==
    IF lines = <<>> THEN ""
    ELSE IF Len(lines) = 1 THEN lines[1]
    ELSE lines[1] \o "\n" \o JoinLines(Tail(lines))

\* what the remote service holds (ids, names and codes are its own)
Projects == <<[id |-> 1, name |-> "PRJ"], [id |-> 2, name |-> "DEMO"]>>
Shots ==
    <<[id |-> 11, code |-> "sh010", sg_sequence |-> [name |-> "sq01"],
       sg_cut_in |-> 1001, sg_cut_out |-> 1050, sg_status_list |-> "wtg"],
      [id |-> 12, code |-> "sh020", sg_sequence |-> None,
       sg_cut_in |-> NoneInt, sg_cut_out |-> NoneInt, sg_status_list |-> "ip"]>>
Tasks == <<[id |-> 21, content |-> "comp"], [id |-> 22, content |-> "comp_precomp"]>>
Users == {[id |-> 31, name |-> "Al", login |-> "al"], [id |-> 32, login |-> "bo"]}
Versions ==
    {[version_number |-> NoneInt, sg_path_to_frames |-> "", sg_path_to_movie |-> ""],
     [version_number |-> 0, sg_path_to_frames |-> "", sg_path_to_movie |-> "/r/sh010/a.mov"],
     [version_number |-> 11, sg_path_to_frames |-> "/r/sh010/a.1001.exr", sg_path_to_movie |-> "/r/a.mov"],
     [version_number |-> 999, sg_path_to_frames |-> "", sg_path_to_movie |-> ""],
     [sg_path_to_frames |-> "", sg_path_to_movie |-> ""]}

\* the lists a find may return: nothing, one entity, or both in the order the
\* service chooses
Results(pool) == {<<>>, <<pool[1]>>, <<pool[2], pool[1]>>}

\* the client handles the host may hold: None, or one login() has returned
\* and the cache still holds
Handles == {NoSession} \cup {flow_sessions[k] : k \in DOMAIN flow_sessions}

\* the shot, task and user entries as lines 311-317, 422-429 build them
ShotEntry(shot, seq_name) ==
    [id |-> shot.id, code |-> shot.code, sequence |-> seq_name,
     cut_in |-> Get(shot, "sg_cut_in", NoneInt), cut_out |-> Get(shot, "sg_cut_out", NoneInt)]
TaskEntry(task) == [id |-> task.id, name |-> task.content]
UserEntry(user_id, user_name) == [id |-> user_id, name |-> user_name]

\* line 282: seq_name
SeqName(shot) ==
    LET sequence == Get(shot, "sg_sequence", EmptyDict)
    IN  IF sequence # None /\ sequence # EmptyDict THEN Get(sequence, "name", "SEQ") ELSE "SEQ"

\* line 319: the filename of a selected shot
ShotFilename(project, seq_name, shot, version_num) ==
    project.name \o "_" \o seq_name \o "_" \o shot.code \o "_v" \o Pad3(version_num)

\* line 434: the filename of a selected task
TaskFilename(project, shot_data, task, version_number) ==
    Get(project, "name", "proj") \o "_" \o Get(shot_data, "sequence", "SEQ") \o "_"
        \o Get(shot_data, "code", "shot") \o "_" \o task.content \o "_v" \o Pad3(version_number)

\* the contexts another node or script of the host may build and pass in:
\* the four stages of the data model, over what the service holds
HostContexts ==
    LET sh == ShotEntry(Shots[1], "sq01")
    IN  { Context(s, None, None, None, None, 1, NoneStr) : s \in Handles }
        \cup { Context(s, Projects[1], None, None, None, 1, NoneStr) : s \in Handles }
        \cup { Context(s, Projects[1], sh, None, None, 12,
                       ShotFilename(Projects[1], "sq01", Shots[1], 12)) : s \in Handles }
        \cup { Context(s, Projects[1], sh, TaskEntry(Tasks[1]), UserEntry(u, "Al"), 12,
                       TaskFilename(Projects[1], sh, Tasks[1], 12)) :
               s \in Handles, u \in {31, NoneInt} }

\* FLOW_CONTEXT input of lines 247, 360, 463, 584, 637: the host connects a
\* context that was not made by ProjectBrowser in this run
HostContext(c) ==
    /\ heap' = [Collect(heap, {}) EXCEPT ![1] = c]
    /\ wire' = 1
    /\ chain' = <<"host">>
    /\ last' = [op |-> "HostContext", args |-> <<>>, flow |-> NoRef, ret |-> 1,
                id |-> "", info |-> "", raised |-> FALSE, calls |-> <<>>]
    /\ UNCHANGED <<srv, threads>>
    /\ UNCHANGED <<HAS_SHOTGUN, flow_sessions, clients>>

\* the host's record of the selection nodes a context went through
MaxChain == 3
Extend(c, op) == IF Len(c) < MaxChain THEN Append(c, op) ELSE c

----------------------------------------------------------------------------
(* ProjectBrowser.browse *)

\* lines 208-217: info
ProjectInfo(projects) ==
    LET project == projects[1]
        marker(p) == IF p.id = project.id THEN "->" ELSE " "
        listed == SubSeq(projects, 1, IF Len(projects) > 10 THEN 10 ELSE Len(projects))
        head == <<CHECK \o " Selected: " \o project.name, "">>
        many == <<"Available projects (" \o ToString(Len(projects)) \o "):">>
                \o [i \in DOMAIN listed |-> "  " \o marker(listed[i]) \o " " \o listed[i].name]
                \o (IF Len(projects) > 10
                    THEN <<"  ... and " \o ToString(Len(projects) - 10) \o " more">>
                    ELSE <<>>)
    IN  JoinLines(IF Len(projects) > 1 THEN head \o many ELSE head)

\* lines 171-223: browse(session, filter), given what find does: `exc' is the
\* exception it raises ("" for none) and `projects' the list it returns.
\* The filter only narrows the query, whose result the service decides.
BrowseProjects(session, exc, projects) ==
    IF session = NoSession
    THEN [ctx |-> None, info |-> CROSS \o " No Flow session - connect Flow Login first",
          calls |-> <<>>]
    ELSE IF exc # ""
    THEN [ctx |-> None, info |-> CROSS \o " Error: " \o exc,
          calls |-> <<Call("find", "Project", session, exc)>>]
    ELSE IF projects = <<>>
    THEN [ctx |-> None, info |-> CROSS \o " No projects found",
          calls |-> <<Call("find", "Project", session, "")>>]
    ELSE [ctx |-> Context(session, [id |-> projects[1].id, name |-> projects[1].name],
                          None, None, None, 1, NoneStr),
          info |-> ProjectInfo(projects),
          calls |-> <<Call("find", "Project", session, "")>>]

ProjectBrowser(session, filter, exc, projects) ==
    \E r \in {BrowseProjects(session, exc, projects)} :
        \E ref \in {IF r.ctx = None THEN NoRef ELSE 1} :
            /\ heap' = IF ref = NoRef THEN Collect(heap, {})
                       ELSE [Collect(heap, {}) EXCEPT ![ref] = r.ctx]
            /\ wire' = ref
            /\ chain' = IF ref = NoRef THEN <<>> ELSE <<"ProjectBrowser">>
            /\ last' = [op |-> "ProjectBrowser",
                        args |-> [session |-> session, filter |-> filter,
                                  remote |-> [exc |-> exc, projects |-> projects]],
                        flow |-> NoRef, ret |-> ref, id |-> "", info |-> r.info,
                        raised |-> FALSE, calls |-> r.calls]
            /\ UNCHANGED <<srv, threads>>
            /\ UNCHANGED <<HAS_SHOTGUN, flow_sessions, clients>>

----------------------------------------------------------------------------
(* ShotBrowser.browse *)

\* what a node call leaves behind: returned reference, strings, heap, calls
Outcome(ret, folder_path, latest_file, info, h, calls) ==
    [ret |-> ret, folder_path |-> folder_path, latest_file |-> latest_file,
     info |-> info, heap |-> h, calls |-> calls]

\* lines 262, 375: `not session or not project' / `not session or not shot'
GateEntityOnly(session, entity) == entity = None
Gate(session, entity) == session = NoSession \/ entity = None

\* lines 298-307: latest_file, version_num, folder_path from the find result
LatestFile(versions) ==
    IF versions = <<>> THEN ""
    ELSE IF Get(versions[1], "sg_path_to_frames", "") # "" THEN versions[1].sg_path_to_frames
    ELSE Get(versions[1], "sg_path_to_movie", "")
VersionNumNullKept(versions) == IF versions = <<>> THEN 1 ELSE Get(versions[1], "version_number", 0) + 1
VersionNum(versions) ==
    IF versions = <<>> THEN 1
    ELSE (IF Get(versions[1], "version_number", NoneInt) \in {NoneInt, 0}
          THEN 0 ELSE versions[1].version_number) + 1
FolderPath(versions) ==
    IF LatestFile(versions) # "" THEN Dirname(LatestFile(versions)) ELSE ""

\* lines 323-334: info
ShotInfo(shot, seq_name, set_in_progress, version_num, folder_path, latest_file) ==
    JoinLines(<<"Shot: " \o shot.code,
                "Sequence: " \o seq_name,
                "Status: " \o (IF set_in_progress THEN "In Progress"
                               ELSE Get(shot, "sg_status_list", "N/A")),
                "Next Version: v" \o Pad3(version_num)>>
              \o (IF folder_path # "" THEN <<"Folder: " \o folder_path>> ELSE <<>>)
              \o (IF latest_file # "" THEN <<"Latest: " \o Basename(latest_file)>> ELSE <<>>))

\* lines 309-320: pipe = flow.copy() and the four stores into pipe
ShotPipe(h, flow, project, shot, versions) ==
    LET c == Copy(h, flow)
        h1 == Store(c.heap, c.ref, "shot", ShotEntry(shot, SeqName(shot)))
        h2 == Store(h1, c.ref, "version_number", VersionNum(versions))
        h3 == Store(h2, c.ref, "resolved_filename",
                    ShotFilename(project, SeqName(shot), shot, VersionNum(versions)))
    IN  [ref |-> c.ref, heap |-> Store(h3, c.ref, "folder_path", FolderPath(versions))]

\* lines 278, 337-338: what browse() returns when nothing was selected
ShotFailedNone(h, flow, info, calls) == Outcome(NoRef, "", "", info, h, calls)
ShotFailed(h, flow, info, calls) == Outcome(flow, "", "", info, h, calls)

\* line 335: the context browse() returns after a selection
ShotReturn(flow, pipe) == flow

\* lines 255-338: browse(flow, shot_code, set_in_progress) on the heap `h',
\* given what the service does: find on Shot raises `fexc' or returns `shots',
\* update raises `uexc', find on Version raises `vexc' or returns `versions'.
\* shot_code only narrows the query, whose result the service decides.
BrowseShots(h, flow, set_in_progress, fexc, shots, uexc, vexc, versions) ==
    IF flow = NoRef
    THEN Outcome(NoRef, "", "", "ERROR: No flow data", h, <<>>)
    ELSE
    LET session == Get(h[flow], "session", NoSession)
        project == Get(h[flow], "project", None)
        found == <<Call("find", "Shot", session, fexc)>>
        shot == shots[1]
        updated == IF set_in_progress
                   THEN Append(found, Call("update", "Shot", session, uexc)) ELSE found
        listed == Append(updated, Call("find", "Version", session, vexc))
        pipe == ShotPipe(h, flow, project, shot, versions)
    IN  IF Gate(session, project)
        THEN Outcome(NoRef, "", "", "ERROR: Invalid flow data", h, <<>>)
        ELSE IF fexc # ""
        THEN ShotFailed(h, flow, "ERROR: " \o fexc, found)
        ELSE IF shots = <<>>
        THEN ShotFailed(h, flow, "No shots found", found)
        ELSE IF set_in_progress /\ uexc # ""
        THEN ShotFailed(h, flow, "ERROR: " \o uexc, updated)
        ELSE IF vexc # ""
        THEN ShotFailed(h, flow, "ERROR: " \o vexc, listed)
        ELSE Outcome(ShotReturn(flow, pipe.ref), FolderPath(versions), LatestFile(versions),
                     ShotInfo(shot, SeqName(shot), set_in_progress, VersionNum(versions),
                              FolderPath(versions), LatestFile(versions)),
                     pipe.heap, listed)


ShotBrowser(shot_code, set_in_progress, fexc, shots, uexc, vexc, versions) ==
    \E r \in {BrowseShots(heap, wire, set_in_progress, fexc, shots, uexc, vexc, versions)} :
        /\ heap' = Collect(r.heap, {wire, r.ret})
        /\ wire' = r.ret
        /\ chain' = IF r.ret = NoRef THEN <<>>
                    ELSE IF StartsWith(r.info, "Shot: ") THEN Extend(chain, "ShotBrowser")
                    ELSE chain
        /\ last' = [op |-> "ShotBrowser",
                    args |-> [shot_code |-> shot_code, set_in_progress |-> set_in_progress,
                              remote |-> [fexc |-> fexc, shots |-> shots, uexc |-> uexc,
                                          vexc |-> vexc, versions |-> versions]],
                    flow |-> wire, ret |-> r.ret, id |-> "", info |-> r.info,
                    raised |-> FALSE, calls |-> r.calls,
                    folder_path |-> r.folder_path, latest_file |-> r.latest_file]
        /\ UNCHANGED <<srv, threads>>
        /\ UNCHANGED <<HAS_SHOTGUN, flow_sessions, clients>>

----------------------------------------------------------------------------
(* TaskSelector.select *)

\* line 408: user_name
UserName(me) == Get(me, "name", Get(me, "login", "Unknown"))

\* lines 420-434: pipe = flow.copy() and the three stores into pipe
TaskPipe(h, flow, task, user_id, user_name) ==
    LET c == Copy(h, flow)
        h1 == Store(c.heap, c.ref, "task", TaskEntry(task))
        h2 == Store(h1, c.ref, "user", UserEntry(user_id, user_name))
        project == Get(h[flow], "project", EmptyDict)
        shot_data == Get(h[flow], "shot", EmptyDict)
    IN  [ref |-> c.ref,
         heap |-> Store(h2, c.ref, "resolved_filename",
                        TaskFilename(project, shot_data, task, h2[c.ref].version_number))]

\* lines 390, 439-440: what select() returns when nothing was selected
TaskFailed(h, flow, info, calls) == Outcome(flow, "", "", info, h, calls)

\* line 437: the context select() returns after a selection
TaskReturn(flow, pipe) == flow

\* lines 368-440: select(flow, task_name, assign_to_me) on the heap `h', given
\* what the service does: find on Task raises `fexc' or returns `tasks',
\* find_one on HumanUser raises `mexc' or returns `me' (None or a user),
\* update on Task raises `uexc'.
SelectTask(h, flow, task_name, assign_to_me, fexc, tasks, mexc, me, uexc) ==
    IF flow = NoRef
    THEN Outcome(NoRef, "", "", "ERROR: No flow data", h, <<>>)
    ELSE
    LET session == Get(h[flow], "session", NoSession)
        shot == Get(h[flow], "shot", None)
        found == <<Call("find", "Task", session, fexc)>>
        task == tasks[1]
        asked == IF assign_to_me
                 THEN Append(found, Call("find_one", "HumanUser", session, mexc)) ELSE found
        known == assign_to_me /\ mexc = "" /\ me # None
        calls == IF known THEN Append(asked, Call("update", "Task", session, uexc)) ELSE asked
        user_name == IF known THEN UserName(me) ELSE "Unknown"
        user_id == IF known THEN me.id ELSE NoneInt
        pipe == TaskPipe(h, flow, task, user_id, user_name)
    IN  IF Gate(session, shot)
        THEN Outcome(flow, "", "", "ERROR: Need shot selected first", h, <<>>)
        ELSE IF fexc # ""
        THEN TaskFailed(h, flow, "ERROR: " \o fexc, found)
        ELSE IF tasks = <<>>
        THEN TaskFailed(h, flow, "No task '" \o task_name \o "' found on shot " \o shot.code,
                        found)
        ELSE Outcome(TaskReturn(flow, pipe.ref), "", "",
                     "Task: " \o task.content \o "\nAssigned to: " \o user_name
                        \o "\nFilename: " \o pipe.heap[pipe.ref].resolved_filename,
                     pipe.heap, calls)

TaskSelector(task_name, assign_to_me, fexc, tasks, mexc, me, uexc) ==
    \E r \in {SelectTask(heap, wire, task_name, assign_to_me, fexc, tasks, mexc, me, uexc)} :
        /\ heap' = Collect(r.heap, {wire, r.ret})
        /\ wire' = r.ret
        /\ chain' = IF r.ret = NoRef THEN <<>>
                    ELSE IF StartsWith(r.info, "Task: ") THEN Extend(chain, "TaskSelector")
                    ELSE chain
        /\ last' = [op |-> "TaskSelector",
                    args |-> [task_name |-> task_name, assign_to_me |-> assign_to_me,
                              remote |-> [fexc |-> fexc, tasks |-> tasks, mexc |-> mexc,
                                          me |-> me, uexc |-> uexc]],
                    flow |-> wire, ret |-> r.ret, id |-> "", info |-> r.info,
                    raised |-> FALSE, calls |-> r.calls]
        /\ UNCHANGED <<srv, threads>>
        /\ UNCHANGED <<HAS_SHOTGUN, flow_sessions, clients>>

----------------------------------------------------------------------------
(* PublishToFlow.publish *)

\* a create call, with the data it sends
Create(t, sg, exc, data) == [m |-> "create", t |-> t, sg |-> sg, exc |-> exc, data |-> data]

\* what publish() and add_note() return: an id string, a message, the calls
Posted(id, info, calls) == [id |-> id, info |-> info, calls |-> calls]

\* lines 474-475, 482-486: the names bound in publish() when line 499 runs
PublishNames ==
    {"self", "flow", "file_path", "description", "do_publish", "status",
     "thumbnail", "session", "project", "shot", "task", "user"}

\* s.lower().endswith(('.jpg', '.png', '.tif', '.tiff')), on the paths used here
IsImagePath(file_path) ==
    \E ext \in {".jpg", ".JPG", ".png", ".tif", ".tiff"} :
        Len(file_path) >= Len(ext)
        /\ SubSeq(file_path, Len(file_path) - Len(ext) + 1, Len(file_path)) = ext

\* lines 479, 653: `if not do_publish' / `if not do_post'
DisabledNever(flag) == FALSE
Disabled(flag) == ~flag

\* lines 496-509: version_data
VersionData(c, file_path, description, status) ==
    LET base == [project |-> [type |-> "Project", id |-> c.project.id],
                 entity |-> [type |-> "Shot", id |-> c.shot.id],
                 code |-> Get(c, "resolved_filename", "v" \o Pad3(c.version_number)),
                 description |-> description, sg_status_list |-> status,
                 sg_path_to_frames |-> file_path]
        tasked == IF c.task # None
                  THEN Put(base, "sg_task", [type |-> "Task", id |-> c.task.id]) ELSE base
    IN  IF c.user # None /\ Get(c.user, "id", NoneInt) \notin {NoneInt, 0}
        THEN Put(tasked, "user", [type |-> "HumanUser", id |-> c.user.id]) ELSE tasked

\* lines 474-559: publish(flow, file_path, description, do_publish, status,
\* thumbnail) on the context `c' (None for no context), given the file
\* system (`exists') and the service: create raises `cexc' or returns a
\* Version with id `new_id'; converting and uploading the thumbnail raises `texc'.
Publish(c, file_path, description, do_publish, status, thumbnail, exists, cexc, new_id, texc) ==
    IF c = None
    THEN Posted("", "ERROR: No flow data", <<>>)
    ELSE IF Disabled(do_publish)
    THEN Posted("", PAUSE \o " Publish disabled\nEnable 'do_publish' to upload to Flow", <<>>)
    ELSE IF c.session = NoSession \/ c.project = None \/ c.shot = None
    THEN Posted("", "ERROR: Need project and shot in pipe", <<>>)
    ELSE IF file_path = "" \/ ~exists
    THEN Posted("", "ERROR: File not found: " \o file_path, <<>>)
    ELSE IF "pipe" \notin PublishNames
    THEN \* line 499 evaluates pipe['version_number'] before flow.get is called
         Posted("", "ERROR: name 'pipe' is not defined", <<>>)
    ELSE
    LET data == VersionData(c, file_path, description, status)
        created == <<Create("Version", c.session, cexc, data)>>
        upload == Append(created, Call("upload_thumbnail", "Version", c.session, texc))
        head == CHECK \o " Published to Flow!\nVersion ID: " \o ToString(new_id)
                  \o "\nCode: " \o data.code \o "\nStatus: " \o status
    IN  IF cexc # ""
        THEN Posted("", "ERROR: " \o cexc, created)
        ELSE IF thumbnail
        THEN Posted(ToString(new_id),
                    head \o (IF texc = "" THEN "\n" \o CHECK \o " Thumbnail uploaded"
                             ELSE "\n[!] Thumbnail failed: " \o texc), upload)
        ELSE IF IsImagePath(file_path)
        THEN Posted(ToString(new_id),
                    head \o (IF texc = "" THEN "\n" \o CHECK \o " Thumbnail from file" ELSE ""),
                    upload)
        ELSE Posted(ToString(new_id), head, created)

\* the context a reference stands for
Deref(h, ref) == IF ref = NoRef THEN None ELSE h[ref]

PublishToFlow(file_path, description, do_publish, status, thumbnail, exists, cexc, new_id, texc) ==
    \E r \in {Publish(Deref(heap, wire), file_path, description, do_publish, status,
                               thumbnail, exists, cexc, new_id, texc)} :
        /\ last' = [op |-> "PublishToFlow",
                    args |-> [file_path |-> file_path, do_publish |-> do_publish,
                              status |-> status, thumbnail |-> thumbnail,
                              exists |-> exists],
                    flow |-> wire, ret |-> NoRef, id |-> r.id, info |-> r.info,
                    raised |-> FALSE, calls |-> r.calls]
        /\ UNCHANGED <<srv, threads>>
        /\ UNCHANGED <<HAS_SHOTGUN, flow_sessions, clients, heap, wire, chain>>

----------------------------------------------------------------------------
(* AddNote.add_note *)

\* s.strip() == "", on texts of blanks and letters
RECURSIVE IsBlank(_)
IsBlank(s) == s = "" \/ (SubSeq(s, 1, 1) = " " /\ IsBlank(SubSeq(s, 2, Len(s))))

\* whether int(s) returns: s is a string of decimal digits
RECURSIVE IsDigits(_)
IsDigits(s) ==
    /\ s # ""
    /\ \E d \in 0..9 : SubSeq(s, 1, 1) = ToString(d)
    /\ (Len(s) = 1 \/ IsDigits(SubSeq(s, 2, Len(s))))

\* int(s) for a string of digits
RECURSIVE ParseInt(_)
ParseInt(s) ==
    IF s = "" THEN 0
    ELSE 10 * ParseInt(SubSeq(s, 1, Len(s) - 1))
         + (CHOOSE d \in 0..9 : ToString(d) = SubSeq(s, Len(s), Len(s)))

\* lines 648-706: add_note(flow, note_text, subject, attach_to, version_id,
\* do_post) on the context `c', given the service: create raises `cexc' or
\* returns a Note with id `new_id'.
Note(c, note_text, subject, attach_to, version_id, do_post, cexc, new_id) ==
    IF c = None
    THEN Posted("", "ERROR: No flow data", <<>>)
    ELSE IF Disabled(do_post)
    THEN Posted("", PAUSE \o " Note not posted\nEnable 'do_post' to add note to Flow", <<>>)
    ELSE IF IsBlank(note_text)
    THEN Posted("", "ERROR: Note text is empty", <<>>)
    ELSE IF c.session = NoSession \/ c.project = None
    THEN Posted("", "ERROR: Invalid flow data", <<>>)
    ELSE IF attach_to = "version" /\ version_id # "" /\ ~IsDigits(version_id)
    THEN Posted("", "ERROR: invalid literal for int() with base 10: '" \o version_id \o "'", <<>>)
    ELSE IF ~(attach_to = "version" /\ version_id # "")
            /\ ~(attach_to = "task" /\ c.task # None) /\ c.shot = None
    THEN Posted("", "ERROR: No valid entity to attach note to", <<>>)
    ELSE
    LET link == IF attach_to = "version" /\ version_id # ""
                THEN [type |-> "Version", id |-> ParseInt(version_id)]
                ELSE IF attach_to = "task" /\ c.task # None
                THEN [type |-> "Task", id |-> c.task.id]
                ELSE [type |-> "Shot", id |-> c.shot.id]
        link_info == IF link.type = "Version" THEN "Version " \o version_id
                     ELSE IF link.type = "Task" THEN "Task: " \o c.task.name
                     ELSE "Shot: " \o c.shot.code
        base == [project |-> [type |-> "Project", id |-> c.project.id],
                 subject |-> subject, content |-> note_text, note_links |-> <<link>>]
        data == IF c.user # None /\ Get(c.user, "id", NoneInt) \notin {NoneInt, 0}
                THEN Put(base, "user", [type |-> "HumanUser", id |-> c.user.id]) ELSE base
        created == <<Create("Note", c.session, cexc, data)>>
    IN  IF cexc # ""
        THEN Posted("", "ERROR: " \o cexc, created)
        ELSE Posted(ToString(new_id),
                    CHECK \o " Note posted!\nNote ID: " \o ToString(new_id)
                        \o "\nAttached to: " \o link_info \o "\nSubject: " \o subject,
                    created)

AddNote(note_text, subject, attach_to, version_id, do_post, cexc, new_id) ==
    \E r \in {Note(Deref(heap, wire), note_text, subject, attach_to, version_id,
                            do_post, cexc, new_id)} :
        /\ last' = [op |-> "AddNote",
                    args |-> [note_text |-> note_text, attach_to |-> attach_to,
                              version_id |-> version_id, do_post |-> do_post],
                    flow |-> wire, ret |-> NoRef, id |-> r.id, info |-> r.info,
                    raised |-> FALSE, calls |-> r.calls]
        /\ UNCHANGED <<srv, threads>>
        /\ UNCHANGED <<HAS_SHOTGUN, flow_sessions, clients, heap, wire, chain>>

----------------------------------------------------------------------------
(* FilenameFromFlow.extract *)

\* the home directory os.path.expanduser puts for "~"
Home == "/home/artist"

\* os.path.expanduser, for paths that are "~", start with "~/" or have no "~"
ExpandUser(path) ==
    IF path = "~" \/ StartsWith(path, "~/")
    THEN Home \o SubSeq(path, 2, Len(path)) ELSE path

\* os.path.join(a, b) (posixpath)
Join2(a, b) ==
    IF StartsWith(b, "/") THEN b
    ELSE IF a = "" \/ SubSeq(a, Len(a), Len(a)) = "/" THEN a \o b
    ELSE a \o "/" \o b

\* lines 592-614: extract(flow, suffix, base_path) on the context `c'.
\* A resolved_filename of None is rendered "None" by the f-strings.
Extract(c, suffix, base_path) ==
    IF c = None
    THEN [filename |-> "output", output_folder |-> "", info |-> "ERROR: No flow data",
          raised |-> FALSE]
    ELSE
    LET resolved == Get(c, "resolved_filename", "output")
        filename == IF suffix # "" THEN resolved \o suffix ELSE resolved
        project == Get(c, "project", EmptyDict)
        shot == Get(c, "shot", EmptyDict)
        output_folder ==
            Join2(Join2(Join2(ExpandUser(base_path), Get(project, "name", "project")),
                        Get(shot, "sequence", "SEQ")),
                  Get(shot, "code", "shot"))
    IN  IF project = None \/ shot = None
        THEN \* lines 607-609: None has no attribute 'get'
             [filename |-> "", output_folder |-> "",
              info |-> "AttributeError: 'NoneType' object has no attribute 'get'",
              raised |-> TRUE]
        ELSE [filename |-> filename, output_folder |-> output_folder,
              info |-> "Filename: " \o filename \o "\nOutput: " \o output_folder
                        \o "/" \o filename \o ".exr",
              raised |-> FALSE]

FilenameFromFlow(suffix, base_path) ==
    \E r \in {Extract(Deref(heap, wire), suffix, base_path)} :
        /\ last' = [op |-> "FilenameFromFlow",
                    args |-> [suffix |-> suffix, base_path |-> base_path],
                    flow |-> wire, ret |-> NoRef, id |-> "", info |-> r.info,
                    raised |-> r.raised, calls |-> <<>>,
                    filename |-> r.filename, output_folder |-> r.output_folder]
        /\ UNCHANGED <<srv, threads>>
        /\ UNCHANGED <<HAS_SHOTGUN, flow_sessions, clients, heap, wire, chain>>

----------------------------------------------------------------------------
(* server.py: the HTTP handlers under /vfx-flow.                           *)
(* A handler runs without interruption from one await to the next.         *)
(* flow_login awaits the request body before it reads any state, so it is  *)
(* one step; select_entity reads the active session, awaits the body and   *)
(* then carries on, so it is two steps; the other handlers never await.    *)

\* session dictionaries that may exist at the same time
MaxSessions == 4
\* select requests that may await their body at the same time
MaxPending == 1

\* JSON values of a request body or a query string; null and a missing
\* query parameter are None
JBool(b) == [bool |-> b]
JInt(n) == [int |-> n]
JStr(s) == [str |-> s]

\* bool(x): what `not x' and `x and ...' test
Truthy(x) == x # None /\ x # JBool(FALSE) /\ x # JInt(0) /\ x # JStr("")

\* f"{x}"
Str(x) ==
    IF x = None THEN NoneStr
    ELSE IF "str" \in DOMAIN x THEN x.str
    ELSE IF "int" \in DOMAIN x THEN ToString(x.int)
    ELSE IF x.bool THEN "True" ELSE "False"

\* whether int(x) returns, for strings without sign or blanks
IntOk(x) ==
    /\ x # None
    /\ "str" \in DOMAIN x => IsDigits(x.str)

\* int(x)
ToInt(x) ==
    IF "int" \in DOMAIN x THEN x.int
    ELSE IF "str" \in DOMAIN x THEN ParseInt(x.str)
    ELSE IF x.bool THEN 1 ELSE 0

\* str(e) of the exception int(x) raises
IntError(x) ==
    IF x = None
    THEN "int() argument must be a string, a bytes-like object or a real number, not 'NoneType'"
    ELSE "invalid literal for int() with base 10: '" \o x.str \o "'"

\* s.lower()
UpperCase == "ABCDEFGHIJKLMNOPQRSTUVWXYZ"
LowerCase == "abcdefghijklmnopqrstuvwxyz"
LowerChar(c) ==
    IF \E i \in 1..Len(UpperCase) : SubSeq(UpperCase, i, i) = c
    THEN LET i == CHOOSE i \in 1..Len(UpperCase) : SubSeq(UpperCase, i, i) = c
         IN  SubSeq(LowerCase, i, i)
    ELSE c
RECURSIVE Lower(_)
Lower(s) == IF s = "" THEN "" ELSE LowerChar(SubSeq(s, 1, 1)) \o Lower(SubSeq(s, 2, Len(s)))

\* _login_sessions is a dict: it keeps its keys in insertion order, and an
\* assignment to a key it has keeps the key's place.  An entry is the key
\* and the session dictionary, which is known by the client it holds.
Keys(d) == {d[i].key : i \in DOMAIN d}
Refs(d) == {d[i].sg : i \in DOMAIN d}
\* line 88: _login_sessions[cache_key] = {...}
OPutLast(d, key, ref) ==
    Append(SelectSeq(d, LAMBDA e : e.key # key), [key |-> key, sg |-> ref])
OPut(d, key, ref) ==
    IF key \in Keys(d)
    THEN [i \in DOMAIN d |-> IF d[i].key = key THEN [key |-> key, sg |-> ref] ELSE d[i]]
    ELSE Append(d, [key |-> key, sg |-> ref])

\* lines 25-29: the first value of _login_sessions, or None
ActiveLast(d) == IF d # <<>> THEN d[Len(d)].sg ELSE NoSession
get_active_session(d) == IF d # <<>> THEN d[1].sg ELSE NoSession

\* no session dictionary exists
NoSessions == [r \in 1..MaxSessions |-> None]
\* the session dictionaries something still refers to
Referenced(h, d, pend) ==
    [r \in DOMAIN h |-> IF r \in Refs(d) \/ \E i \in DOMAIN pend : pend[i] = r
                        THEN h[r] ELSE None]
\* the clients nothing refers to any more; a new client is the first of them
Free(h) == {r \in DOMAIN h : h[r] = None}
Fresh(h) == CHOOSE r \in Free(h) : \A q \in Free(h) : r <= q

\* the successful logins since the last logout, by identity in the order of
\* each identity's first login, with the client and user of its latest
Logged(hist, entry) ==
    IF \E i \in DOMAIN hist : hist[i].key = entry.key
    THEN [i \in DOMAIN hist |-> IF hist[i].key = entry.key THEN entry ELSE hist[i]]
    ELSE Append(hist, entry)

\* Client handles are opaque: a state is kept with its clients numbered in
\* the order _login_sessions and then the awaiting requests mention them.
RECURSIVE Distinct(_)
Distinct(s) ==
    IF s = <<>> THEN <<>>
    ELSE LET t == Distinct(SubSeq(s, 1, Len(s) - 1))
         IN  IF \E i \in DOMAIN t : t[i] = s[Len(s)] THEN t ELSE Append(t, s[Len(s)])
RECURSIVE Ascending(_)
Ascending(S) ==
    IF S = {} THEN <<>>
    ELSE LET m == CHOOSE x \in S : \A y \in S : x <= y
         IN  <<m>> \o Ascending(S \ {m})
Order(d, pend, all) ==
    LET used == Distinct([i \in DOMAIN d |-> d[i].sg] \o pend)
    IN  used \o Ascending(all \ {used[i] : i \in DOMAIN used})
Rank(order, r) == IF r = NoSession THEN NoSession ELSE CHOOSE i \in DOMAIN order : order[i] = r

\* the requests awaiting their body, kept in the order of their sessions
Await(pend, session) ==
    LET k == Cardinality({i \in DOMAIN pend : pend[i] <= session})
    IN  SubSeq(pend, 1, k) \o <<session>> \o SubSeq(pend, k + 1, Len(pend))
Resume(pend, i) == SubSeq(pend, 1, i - 1) \o SubSeq(pend, i + 1, Len(pend))
RECURSIVE Sorted(_)
Sorted(pend) == IF pend = <<>> THEN <<>> ELSE Await(Sorted(Tail(pend)), Head(pend))

\* web.json_response(...): the handler `op' answers `response' after the
\* remote calls `calls', and leaves the server's state as given; `args' is
\* what of the request the response does not show
Respond(op, args, session, response, calls, d, h, pend, hist) ==
    \E order \in {Order(d, pend, DOMAIN h)} :
        /\ login_sessions' = [i \in DOMAIN d |-> [d[i] EXCEPT !.sg = Rank(order, @)]]
        /\ sessions' = [r \in DOMAIN h |->
                          IF Referenced(h, d, pend)[order[r]] = None THEN None
                          ELSE [h[order[r]] EXCEPT !.sg = r]]
        /\ pending' = Sorted([i \in DOMAIN pend |-> Rank(order, pend[i])])
        /\ logins' = [i \in DOMAIN hist |-> [hist[i] EXCEPT !.sg = Rank(order, @)]]
        /\ last' = [op |-> op, args |-> args, flow |-> NoRef, ret |-> Rank(order, session),
                    id |-> "", info |-> "", raised |-> FALSE,
                    calls |-> [i \in DOMAIN calls |-> [calls[i] EXCEPT !.sg = Rank(order, @)]],
                    response |-> response,
                    session |-> IF session = NoSession THEN None
                                ELSE [h[session] EXCEPT !.sg = Rank(order, @)]]
        /\ UNCHANGED <<HAS_SHOTGUN, flow_sessions, clients, heap, wire, chain, threads>>

\* a request body that is not JSON, and str(e) of what request.json() raises
Malformed == [malformed |-> TRUE]
JSONError == "Expecting value: line 1 column 1 (char 0)"

\* lines 102-104: the error message of a failed login
LoginError(error_msg) ==
    IF Contains(Lower(error_msg), "authentication") \/ Contains(error_msg, "401")
    THEN "Invalid credentials" ELSE error_msg

\* the exceptions the vendor client raises on a login
LoginFaults == {"timed out", "Authentication failed", "401 Unauthorized"}

\* lines 36-114: flow_login on the body `data', given what the service does:
\* shotgun_api3.Shotgun(...) raises `ctor', find_one on HumanUser raises
\* `fexc' or returns `user' (None or a user).  `d' is _login_sessions, `h'
\* the session dictionaries, `sg' the client the constructor makes.
LoginRoute(has, d, h, sg, data, ctor, fexc, user) ==
    LET site_url == Get(data, "site_url", "")
        auth_method == Get(data, "auth_method", "user")
        login == Get(data, "login", "")
        password == Get(data, "password", "")
        script_name == Get(data, "script_name", "")
        api_key == Get(data, "api_key", "")
        made == <<Call("Shotgun", auth_method, IF ctor = "" THEN sg ELSE NoSession, ctor)>>
        asked == Append(made, Call("find_one", "HumanUser", sg, fexc))
        cache_key == CacheKey(site_url, auth_method, script_name, login)
        user_name == IF auth_method = "user"
                     THEN (IF user # None /\ user # EmptyDict
                           THEN Get(user, "name", login) ELSE login)
                     ELSE script_name
        fail(error, calls) ==
            [response |-> [success |-> FALSE, error |-> error], calls |-> calls,
             login_sessions |-> d, sessions |-> h, logged |-> None]
    IN  IF data = Malformed
        THEN fail(JSONError, <<>>)
        ELSE IF ~has
        THEN [fail("shotgun_api3 not installed", <<>>) EXCEPT
                 !.response = [success |-> FALSE, error |-> "shotgun_api3 not installed",
                               message |-> "pip install shotgun_api3"]]
        ELSE IF site_url = ""
        THEN fail("No site URL provided", <<>>)
        ELSE IF MissingCredentials(auth_method, api_key, login, password)
        THEN fail(IF auth_method = "user" THEN "Login and password required"
                  ELSE "API key required", <<>>)
        ELSE IF ctor # ""
        THEN fail(LoginError(ctor), made)
        ELSE IF auth_method = "user" /\ fexc # ""
        THEN fail(LoginError(fexc), asked)
        ELSE [response |-> [success |-> TRUE, user_name |-> user_name,
                            site_url |-> site_url,
                            message |-> "Logged in as " \o user_name],
              calls |-> IF auth_method = "user" THEN asked ELSE made,
              login_sessions |-> OPut(d, cache_key, sg),
              sessions |-> [h EXCEPT ![sg] = [sg |-> sg, user_name |-> user_name,
                                              site_url |-> site_url]],
              logged |-> [key |-> cache_key, sg |-> sg, user_name |-> user_name]]

flow_login(data, ctor, fexc, user) ==
    /\ Free(sessions) # {}
    /\ \E r \in {LoginRoute(HAS_SHOTGUN, login_sessions, sessions, Fresh(sessions),
                             data, ctor, fexc, user)} :
        Respond("flow_login", [data |-> data],
                IF r.response.success THEN Fresh(sessions) ELSE NoSession,
                r.response, r.calls, r.login_sessions, r.sessions, pending,
                IF r.logged = None THEN logins ELSE Logged(logins, r.logged))

\* lines 117-127: flow_status
Status(d, h) ==
    LET session == get_active_session(d)
    IN  IF session # NoSession
        THEN [logged_in |-> TRUE,
              user_name |-> Get(h[session], "user_name", "Unknown"),
              site_url |-> Get(h[session], "site_url", "")]
        ELSE [logged_in |-> FALSE]

flow_status ==
    Respond("flow_status", <<>>, get_active_session(login_sessions),
            Status(login_sessions, sessions), <<>>, login_sessions, sessions,
            pending, logins)

\* lines 130-134: flow_logout
ClearNothing(d) == d
Clear(d) == <<>>

flow_logout ==
    Respond("flow_logout", <<>>, NoSession, [success |-> TRUE], <<>>,
            Clear(login_sessions), sessions, pending, <<>>)

\* what the service holds besides Projects and Shots, with the fields the
\* handlers ask for; the second of each lacks the optional ones
SequenceRows == <<[id |-> 5, code |-> "sq01", sg_status_list |-> "ip"], [id |-> 6, code |-> "sq02"]>>
TaskRows ==
    <<[id |-> 21, content |-> "comp", sg_status_list |-> "ip", step |-> [name |-> "Comp"],
       task_assignees |-> <<[name |-> "Al"]>>],
      [id |-> 22, content |-> "roto"]>>
VersionRows ==
    <<[id |-> 41, code |-> "PRJ_sq01_sh010_v011", version_number |-> 11,
       sg_status_list |-> "rev", sg_path_to_frames |-> "/r/sh010/a.1001.exr",
       sg_path_to_movie |-> "", created_at |-> "2024-05-01 10:00:00",
       user |-> [name |-> "Al"]],
      [id |-> 42, code |-> "v2"]>>

\* what a data handler answers, and the remote calls it made
Answer(response, calls) == [response |-> response, calls |-> calls]

\* lines 141-169: get_projects, given that find raises `exc' or returns `projects'
GetProjects(h, session, exc, projects) ==
    IF session = NoSession
    THEN Answer([success |-> FALSE, error |-> "Not logged in", projects |-> <<>>], <<>>)
    ELSE LET calls == <<Call("find", "Project", h[session].sg, exc)>>
         IN  IF exc # ""
             THEN Answer([success |-> FALSE, error |-> exc, projects |-> <<>>], calls)
             ELSE Answer([success |-> TRUE,
                          projects |-> [i \in DOMAIN projects |->
                                          [id |-> projects[i].id, name |-> projects[i].name]]],
                         calls)

\* lines 176-207: get_sequences
GetSequences(h, session, project_id, exc, sequences) ==
    IF session = NoSession
    THEN Answer([success |-> FALSE, error |-> "Not logged in", sequences |-> <<>>], <<>>)
    ELSE IF ~Truthy(project_id)
    THEN Answer([success |-> FALSE, error |-> "project_id required", sequences |-> <<>>], <<>>)
    ELSE IF ~IntOk(project_id)
    THEN Answer([success |-> FALSE, error |-> IntError(project_id), sequences |-> <<>>], <<>>)
    ELSE LET calls == <<Call("find", "Sequence", h[session].sg, exc)>>
         IN  IF exc # ""
             THEN Answer([success |-> FALSE, error |-> exc, sequences |-> <<>>], calls)
             ELSE Answer([success |-> TRUE,
                          sequences |-> [i \in DOMAIN sequences |->
                                           [id |-> sequences[i].id, code |-> sequences[i].code,
                                            status |-> Get(sequences[i], "sg_status_list", "")]]],
                         calls)

\* lines 241-253: one entry of shot_list
ShotRow(s) ==
    LET seq == Get(s, "sg_sequence", None)
    IN  [id |-> s.id, code |-> s.code, status |-> Get(s, "sg_status_list", ""),
         sequence |-> IF seq # None THEN Get(seq, "name", "") ELSE "",
         sequence_id |-> IF seq # None THEN Get(seq, "id", NoneInt) ELSE NoneInt,
         cut_in |-> Get(s, "sg_cut_in", NoneInt), cut_out |-> Get(s, "sg_cut_out", NoneInt),
         thumbnail |-> Get(s, "image", None)]

\* lines 214-264: get_shots
GetShots(h, session, project_id, sequence_id, exc, shots) ==
    IF session = NoSession
    THEN Answer([success |-> FALSE, error |-> "Not logged in", shots |-> <<>>], <<>>)
    ELSE IF ~Truthy(project_id)
    THEN Answer([success |-> FALSE, error |-> "project_id required", shots |-> <<>>], <<>>)
    ELSE IF ~IntOk(project_id)
    THEN Answer([success |-> FALSE, error |-> IntError(project_id), shots |-> <<>>], <<>>)
    ELSE IF Truthy(sequence_id) /\ ~IntOk(sequence_id)
    THEN Answer([success |-> FALSE, error |-> IntError(sequence_id), shots |-> <<>>], <<>>)
    ELSE LET calls == <<Call("find", "Shot", h[session].sg, exc)>>
         IN  IF exc # ""
             THEN Answer([success |-> FALSE, error |-> exc, shots |-> <<>>], calls)
             ELSE Answer([success |-> TRUE,
                          shots |-> [i \in DOMAIN shots |-> ShotRow(shots[i])]], calls)

\* lines 292-301: one entry of task_list
TaskRow(t) ==
    LET assignees == Get(t, "task_assignees", <<>>)
        step == Get(t, "step", None)
    IN  [id |-> t.id, name |-> t.content, status |-> Get(t, "sg_status_list", ""),
         step |-> IF step # None THEN Get(step, "name", "") ELSE "",
         assignees |-> [i \in DOMAIN assignees |-> Get(assignees[i], "name", "")]]

\* lines 271-312: get_tasks
GetTasks(h, session, shot_id, exc, tasks) ==
    IF session = NoSession
    THEN Answer([success |-> FALSE, error |-> "Not logged in", tasks |-> <<>>], <<>>)
    ELSE IF ~Truthy(shot_id)
    THEN Answer([success |-> FALSE, error |-> "shot_id required", tasks |-> <<>>], <<>>)
    ELSE IF ~IntOk(shot_id)
    THEN Answer([success |-> FALSE, error |-> IntError(shot_id), tasks |-> <<>>], <<>>)
    ELSE LET calls == <<Call("find", "Task", h[session].sg, exc)>>
         IN  IF exc # ""
             THEN Answer([success |-> FALSE, error |-> exc, tasks |-> <<>>], calls)
             ELSE Answer([success |-> TRUE,
                          tasks |-> [i \in DOMAIN tasks |-> TaskRow(tasks[i])]], calls)

\* lines 342-354: one entry of version_list
VersionRow(v) ==
    LET user == Get(v, "user", None)
    IN  [id |-> v.id, code |-> v.code, version_number |-> Get(v, "version_number", 0),
         status |-> Get(v, "sg_status_list", ""),
         path_to_frames |-> Get(v, "sg_path_to_frames", ""),
         path_to_movie |-> Get(v, "sg_path_to_movie", ""),
         created_at |-> Get(v, "created_at", ""),
         user |-> IF user # None THEN Get(user, "name", "") ELSE "",
         thumbnail |-> Get(v, "image", None)]

\* lines 319-365: get_versions
GetVersions(h, session, shot_id, exc, versions) ==
    IF session = NoSession
    THEN Answer([success |-> FALSE, error |-> "Not logged in", versions |-> <<>>], <<>>)
    ELSE IF ~Truthy(shot_id)
    THEN Answer([success |-> FALSE, error |-> "shot_id required", versions |-> <<>>], <<>>)
    ELSE IF ~IntOk(shot_id)
    THEN Answer([success |-> FALSE, error |-> IntError(shot_id), versions |-> <<>>], <<>>)
    ELSE LET calls == <<Call("find", "Version", h[session].sg, exc)>>
         IN  IF exc # ""
             THEN Answer([success |-> FALSE, error |-> exc, versions |-> <<>>], calls)
             ELSE Answer([success |-> TRUE,
                          versions |-> [i \in DOMAIN versions |-> VersionRow(versions[i])]],
                         calls)

\* a data handler as a step of the server: it reads the active session and
\* answers; nothing of the server's state changes
Serve(op, args, r) ==
    Respond(op, args, get_active_session(login_sessions), r.response, r.calls,
            login_sessions, sessions, pending, logins)

get_projects(exc, projects) ==
    Serve("get_projects", <<>>,
          GetProjects(sessions, get_active_session(login_sessions), exc, projects))

get_sequences(project_id, exc, sequences) ==
    Serve("get_sequences", <<>>,
          GetSequences(sessions, get_active_session(login_sessions), project_id, exc, sequences))

get_shots(project_id, sequence_id, exc, shots) ==
    Serve("get_shots", <<>>,
          GetShots(sessions, get_active_session(login_sessions), project_id, sequence_id,
                   exc, shots))

get_tasks(shot_id, exc, tasks) ==
    Serve("get_tasks", <<>>,
          GetTasks(sessions, get_active_session(login_sessions), shot_id, exc, tasks))

get_versions(shot_id, exc, versions) ==
    Serve("get_versions", <<>>,
          GetVersions(sessions, get_active_session(login_sessions), shot_id, exc, versions))

\* line 391: whether the shot's status is to be set to "ip"
FlipAlways(data, entity_type) == TRUE
Flip(data, entity_type) ==
    entity_type = JStr("shot") /\ Truthy(Get(data, "set_in_progress", JBool(TRUE)))

\* lines 392-401: whatever update raises is passed over, and the handler
\* answers as it would have
SwallowedNot(response, uexc) == IF uexc # "" THEN [success |-> FALSE, error |-> uexc] ELSE response
Swallowed(response, uexc) == response

\* lines 379-406: select_entity after the await, on the session dictionary
\* `session' it read before; update raises `uexc'
SelectBody(h, session, data, uexc) ==
    LET entity_type == Get(data, "type", None)
        entity_id == Get(data, "id", None)
        stored == Store(h, session, "selected_" \o Str(entity_type), entity_id)
        fail(error) == [response |-> [success |-> FALSE, error |-> error],
                        calls |-> <<>>, sessions |-> h]
    IN  IF data = Malformed
        THEN fail(JSONError)
        ELSE IF ~Truthy(entity_type) \/ ~Truthy(entity_id)
        THEN fail("type and id required")
        ELSE [response |-> Swallowed([success |-> TRUE,
                                      selected |-> (Str(entity_type) :> entity_id)], uexc),
              calls |-> IF Flip(data, entity_type) /\ IntOk(entity_id)
                        THEN <<Call("update", "Shot", stored[session].sg, uexc)>>
                        ELSE <<>>,
              sessions |-> stored]

\* lines 372-377: select_entity up to the await of the request body
select_entity ==
    \E session \in {get_active_session(login_sessions)} :
        IF session = NoSession
        THEN Respond("select_entity", <<>>, NoSession,
                     [success |-> FALSE, error |-> "Not logged in"], <<>>,
                     login_sessions, sessions, pending, logins)
        ELSE /\ Len(pending) < MaxPending
             /\ Respond("await request.json()", <<>>, session, None, <<>>,
                        login_sessions, sessions, Await(pending, session), logins)

\* lines 380-406: select_entity from the await on
select_entity_resumed(i, data, uexc) ==
    \E r \in {SelectBody(sessions, pending[i], data, uexc)} :
        Respond("select_entity", [data |-> data, remote |-> [uexc |-> uexc]],
                pending[i], r.response, r.calls, login_sessions, r.sessions,
                Resume(pending, i), logins)

----------------------------------------------------------------------------

NoCall == [op |-> "none", args |-> <<>>, flow |-> NoRef, ret |-> NoRef,
           id |-> "", info |-> "", raised |-> FALSE, calls |-> <<>>]

\* the state after import: no session cached, no context made
Init ==
    /\ HAS_SHOTGUN \in BOOLEAN
    /\ flow_sessions = EmptyDict
    /\ clients = 0
    /\ heap = [r \in 1..MaxCtx |-> None]
    /\ wire = NoRef
    /\ chain = <<>>
    /\ last = NoCall
    /\ login_sessions = <<>>
    /\ sessions = NoSessions
    /\ pending = <<>>
    /\ logins = <<>>
    /\ threads = <<>>

\* what the remote service may do in a call that is only made when `asked'
When(asked, outcomes) == IF asked THEN outcomes ELSE {""}
\* what a find may return when it does not raise
Found(exc, results) == IF exc = "" THEN results ELSE {<<>>}

NextLogin ==
    \E site_url \in Sites, auth_method \in AuthMethods,
       script_name \in ScriptNames, api_key \in LoginSecrets,
       login \in Logins, password \in LoginSecrets :
        \E cached \in When(~MissingCredentials(auth_method, api_key, login, password)
                           /\ Cached(flow_sessions, CacheKey(site_url, auth_method, script_name, login)),
                           Outcomes),
           ctor \in When(~MissingCredentials(auth_method, api_key, login, password), Outcomes) :
            \E probe \in When(ctor = "", Outcomes) :
                FlowLogin(site_url, auth_method, script_name, api_key, login,
                          password, cached, ctor, probe)

NextNodes ==
    \/ \E c \in HostContexts : HostContext(c)
    \/ \E session \in Handles, filter \in {"PR"}, exc \in Outcomes :
        \E projects \in Found(exc, Results(Projects)) :
            ProjectBrowser(session, filter, exc, projects)
    \/ \E shot_code \in {"sh0"}, set_in_progress \in BOOLEAN, fexc \in Outcomes :
        \E shots \in Found(fexc, Results(Shots)) :
            \E uexc \in When(shots # <<>> /\ set_in_progress, Outcomes) :
                \E vexc \in When(shots # <<>> /\ uexc = "", Outcomes) :
                    \E versions \in Found(vexc, IF shots # <<>> /\ uexc = ""
                                                THEN {<<>>} \cup {<<v>> : v \in Versions}
                                                ELSE {<<>>}) :
                        ShotBrowser(shot_code, set_in_progress, fexc, shots, uexc,
                                    vexc, versions)
    \/ \E task_name \in {"comp"}, assign_to_me \in BOOLEAN, fexc \in Outcomes :
        \E tasks \in Found(fexc, Results(Tasks)) :
            \E mexc \in When(tasks # <<>> /\ assign_to_me, Outcomes) :
                \E me \in IF tasks # <<>> /\ assign_to_me /\ mexc = ""
                          THEN {None} \cup Users ELSE {None} :
                    \E uexc \in When(me # None, Outcomes) :
                        TaskSelector(task_name, assign_to_me, fexc, tasks, mexc, me, uexc)
    \/ \E file_path \in {"", "/r/out.jpg"}, do_publish \in BOOLEAN,
          status \in {"rev"}, thumbnail \in BOOLEAN :
        \E exists \in IF file_path = "" THEN {FALSE} ELSE BOOLEAN :
            PublishToFlow(file_path, "first pass", do_publish, status, thumbnail,
                          exists, "", 41, "")
    \/ \E note_text \in {" ", "fix edge"}, attach_to \in {"shot", "task", "version"},
          do_post \in BOOLEAN :
        \E version_id \in IF attach_to = "version" THEN {"", "41", "4x"} ELSE {""} :
            \E cexc \in When(do_post /\ ~IsBlank(note_text), Outcomes) :
                AddNote(note_text, "ComfyUI Note", attach_to, version_id, do_post,
                        cexc, 51)
    \/ \E suffix \in {"", "_beauty"}, base_path \in {"~/renders"} :
            FilenameFromFlow(suffix, base_path)

\* the request bodies and query strings a client of the server may send
LoginBodies ==
    {Malformed, [site_url |-> "https://a.example"]}
    \cup {[site_url |-> s, auth_method |-> "user", login |-> l, password |-> p] :
          s \in {"", "https://a.example"}, l \in Logins, p \in Secrets}
    \cup {[site_url |-> "https://a.example", auth_method |-> "script",
           script_name |-> n, api_key |-> k] : n \in ScriptNames, k \in Secrets}
SelectBodies ==
    {Malformed, [id |-> JInt(11)]}
    \cup {[type |-> JStr("shot"), id |-> i] : i \in {JInt(0), JInt(11), JStr("x")}}
    \cup {[type |-> JStr("project"), id |-> JInt(1)], [type |-> JStr("task"), id |-> JInt(21)]}
    \cup {[type |-> JStr("shot"), id |-> JInt(11), set_in_progress |-> JBool(FALSE)]}
QueryValues == {None, JStr("1"), JStr("x")}

\* whether flow_login on `data' gets as far as constructing a client
Connects(data) ==
    /\ data # Malformed
    /\ HAS_SHOTGUN
    /\ Get(data, "site_url", "") # ""
    /\ ~MissingCredentials(Get(data, "auth_method", "user"), Get(data, "api_key", ""),
                           Get(data, "login", ""), Get(data, "password", ""))

\* whether a data handler with these parameters gets as far as its find
Queries(ids) ==
    /\ login_sessions # <<>>
    /\ \A i \in DOMAIN ids : Truthy(ids[i]) /\ IntOk(ids[i])

NextServer ==
    \/ \E data \in LoginBodies :
        \E ctor \in When(Connects(data), {""} \cup LoginFaults) :
            \E fexc \in When(Connects(data) /\ ctor = ""
                             /\ Get(data, "auth_method", "user") = "user", Outcomes) :
                \E user \in IF Connects(data) /\ ctor = "" /\ fexc = ""
                               /\ Get(data, "auth_method", "user") = "user"
                            THEN {None} \cup Users ELSE {None} :
                    flow_login(data, ctor, fexc, user)
    \/ flow_status
    \/ flow_logout
    \/ \E exc \in When(login_sessions # <<>>, Outcomes) :
        \E projects \in Found(exc, IF login_sessions # <<>> THEN Results(Projects) ELSE {<<>>}) :
            get_projects(exc, projects)
    \/ \E project_id \in QueryValues :
        \E exc \in When(Queries(<<project_id>>), Outcomes) :
            \E sequences \in Found(exc, IF Queries(<<project_id>>)
                                        THEN Results(SequenceRows) ELSE {<<>>}) :
                get_sequences(project_id, exc, sequences)
    \/ \E project_id \in QueryValues, sequence_id \in {None, JStr("5"), JStr("x")} :
        \E exc \in When(Queries(<<project_id>>) /\ sequence_id # JStr("x"), Outcomes) :
            \E shots \in Found(exc, IF Queries(<<project_id>>) /\ sequence_id # JStr("x")
                                    THEN Results(Shots) ELSE {<<>>}) :
                get_shots(project_id, sequence_id, exc, shots)
    \/ \E shot_id \in QueryValues :
        \E exc \in When(Queries(<<shot_id>>), Outcomes) :
            \E tasks \in Found(exc, IF Queries(<<shot_id>>)
                                    THEN Results(TaskRows) ELSE {<<>>}) :
                get_tasks(shot_id, exc, tasks)
    \/ \E shot_id \in QueryValues :
        \E exc \in When(Queries(<<shot_id>>), Outcomes) :
            \E versions \in Found(exc, IF Queries(<<shot_id>>)
                                       THEN Results(VersionRows) ELSE {<<>>}) :
                get_versions(shot_id, exc, versions)
    \/ select_entity
    \/ \E i \in DOMAIN pending, data \in SelectBodies :
        \E uexc \in When(data # Malformed /\ Truthy(Get(data, "type", None))
                         /\ Truthy(Get(data, "id", None))
                         /\ Flip(data, Get(data, "type", None))
                         /\ IntOk(Get(data, "id", None)), Outcomes) :
            select_entity_resumed(i, data, uexc)

\* the HTTP handlers, from import on
SpecServer == Init /\ [][NextServer]_vars

Next == NextLogin \/ NextNodes \/ NextServer

\* every node of nodes.py, from import on
Spec == Init /\ [][Next]_vars

\* FlowLogin alone: the session cache
SpecLogin == Init /\ [][NextLogin]_vars

\* a cache one successful script login leaves behind
OneLogin == Put(EmptyDict, CacheKey("https://a.example", "script", "comfy", ""), 1)

\* the nodes that take a session or a context, after the logins: they never
\* read or write _flow_sessions, and the host hands them what login() returned
InitNodes ==
    /\ HAS_SHOTGUN = TRUE
    /\ flow_sessions = OneLogin
    /\ clients = 1
    /\ heap = [r \in 1..MaxCtx |-> None]
    /\ wire = NoRef
    /\ chain = <<>>
    /\ last = NoCall
    /\ login_sessions = <<>>
    /\ sessions = NoSessions
    /\ pending = <<>>
    /\ logins = <<>>
    /\ threads = <<>>

SpecNodes == InitNodes /\ [][NextNodes]_vars

\* the two places that try an optional remote write after a selection:
\* TaskSelector.select on the contexts the host may hand it, and the select
\* handler after a login
NextOptional ==
    \/ \E c \in HostContexts : HostContext(c)
    \/ \E task_name \in {"comp"}, assign_to_me \in BOOLEAN, fexc \in Outcomes :
        \E tasks \in Found(fexc, Results(Tasks)) :
            \E mexc \in When(tasks # <<>> /\ assign_to_me, Outcomes) :
                \E me \in IF tasks # <<>> /\ assign_to_me /\ mexc = ""
                          THEN {None} \cup Users ELSE {None} :
                    \E uexc \in When(me # None, Outcomes) :
                        TaskSelector(task_name, assign_to_me, fexc, tasks, mexc, me, uexc)
    \/ \E data \in {[site_url |-> "https://a.example", auth_method |-> "script",
                     script_name |-> "comfy", api_key |-> "s1"]}, ctor \in Outcomes :
            flow_login(data, ctor, "", None)
    \/ select_entity
    \/ \E i \in DOMAIN pending, data \in SelectBodies :
        \E uexc \in When(data # Malformed /\ Truthy(Get(data, "type", None))
                         /\ Truthy(Get(data, "id", None))
                         /\ Flip(data, Get(data, "type", None))
                         /\ IntOk(Get(data, "id", None)), Outcomes) :
            select_entity_resumed(i, data, uexc)

SpecOptional == InitNodes /\ [][NextOptional]_vars

----------------------------------------------------------------------------
(* FlowLogin.login called from two threads at once.  The interpreter may   *)
(* switch threads between any two statements; a statement of login() reads *)
(* or writes _flow_sessions at most once, so each is one step.  A thread   *)
(* keeps its arguments, its position, its local `sg', the remote calls it  *)
(* has made and, once done, what it returned or that it raised.            *)

Thread(args, pc, sg, ret, status, raised, calls) ==
    [args |-> args, pc |-> pc, sg |-> sg, ret |-> ret, status |-> status,
     raised |-> raised, calls |-> calls]

\* line 100, 105: the thread's cache_key
KeyOf(t) ==
    CacheKey(threads[t].args.site_url, threads[t].args.auth_method,
             threads[t].args.script_name, threads[t].args.login)
InfoOf(t) ==
    AuthInfo(threads[t].args.auth_method, threads[t].args.script_name, threads[t].args.login)

\* the thread moves on
Goto(t, pc, sg, calls) ==
    threads' = [threads EXCEPT ![t] = [@ EXCEPT !.pc = pc, !.sg = sg, !.calls = calls]]
\* the thread returns (ret, status), or an exception leaves login()
Return(t, ret, status, raised, calls) ==
    threads' = [threads EXCEPT ![t] = Thread(@.args, "done", @.sg, ret, status, raised, calls)]

\* line 134: _flow_sessions[cache_key] = sg
InsertNothing(d, key, sg) == d
Insert(d, key, sg) == Put(d, key, sg)

\* lines 93-109: the checks of the arguments, then `cache_key in _flow_sessions'
LoginCheck(t) ==
    /\ threads[t].pc = "check"
    /\ LET a == threads[t].args
       IN  IF ~HAS_SHOTGUN
           THEN Return(t, NoSession, "ERROR: shotgun_api3 not installed\npip install shotgun_api3",
                       FALSE, <<>>)
           ELSE IF MissingCredentials(a.auth_method, a.api_key, a.login, a.password)
           THEN Return(t, NoSession,
                       IF a.auth_method = "user"
                       THEN "ERROR: login and password required for user auth"
                       ELSE "ERROR: No API key provided\nSet FLOW_API_KEY env var or enter directly",
                       FALSE, <<>>)
           ELSE IF Cached(flow_sessions, KeyOf(t))
           THEN Goto(t, "read", NoSession, <<>>)
           ELSE Goto(t, "connect", NoSession, <<>>)
    /\ UNCHANGED <<HAS_SHOTGUN, flow_sessions, clients, heap, wire, chain, last, srv>>

\* line 110: sg = _flow_sessions[cache_key]; a KeyError leaves login()
LoginRead(t) ==
    /\ threads[t].pc = "read"
    /\ IF KeyOf(t) \in DOMAIN flow_sessions
       THEN Goto(t, "test", flow_sessions[KeyOf(t)], threads[t].calls)
       ELSE Return(t, NoSession, "KeyError: '" \o KeyOf(t) \o "'", TRUE, threads[t].calls)
    /\ UNCHANGED <<HAS_SHOTGUN, flow_sessions, clients, heap, wire, chain, last, srv>>

\* lines 111-115: the probe on the cached client, which raises `exc'
LoginTest(t, exc) ==
    /\ threads[t].pc = "test"
    /\ \E calls \in {Append(threads[t].calls, Call("find_one", "Project", threads[t].sg, exc))} :
        IF exc = ""
        THEN Return(t, threads[t].sg,
                    CHECK \o " Connected (cached)\n" \o threads[t].args.site_url
                        \o "\n" \o InfoOf(t), FALSE, calls)
        ELSE Goto(t, "evict", threads[t].sg, calls)
    /\ UNCHANGED <<HAS_SHOTGUN, flow_sessions, clients, heap, wire, chain, last, srv>>

\* line 116: del _flow_sessions[cache_key]; a KeyError leaves login()
LoginEvict(t) ==
    /\ threads[t].pc = "evict"
    /\ IF KeyOf(t) \in DOMAIN flow_sessions
       THEN /\ flow_sessions' = Evict(flow_sessions, KeyOf(t))
            /\ Goto(t, "connect", threads[t].sg, threads[t].calls)
       ELSE /\ flow_sessions' = flow_sessions
            /\ Return(t, NoSession, "KeyError: '" \o KeyOf(t) \o "'", TRUE, threads[t].calls)
    /\ UNCHANGED <<HAS_SHOTGUN, clients, heap, wire, chain, last, srv>>

\* lines 119-130: shotgun_api3.Shotgun(...), which raises `ctor'
LoginConnect(t, ctor) ==
    /\ threads[t].pc = "connect"
    /\ \E calls \in {Append(threads[t].calls,
                            Call("Shotgun", threads[t].args.auth_method,
                                 IF ctor = "" THEN clients + 1 ELSE NoSession, ctor))} :
        IF ctor = ""
        THEN /\ clients' = clients + 1
             /\ Goto(t, "probe", clients + 1, calls)
        ELSE /\ clients' = clients
             /\ Return(t, NoSession, "ERROR: " \o ctor, FALSE, calls)
    /\ UNCHANGED <<HAS_SHOTGUN, flow_sessions, heap, wire, chain, last, srv>>

\* line 133: the probe on the new client, which raises `exc'
LoginProbe(t, exc) ==
    /\ threads[t].pc = "probe"
    /\ \E calls \in {Append(threads[t].calls, Call("find_one", "Project", threads[t].sg, exc))} :
        IF exc = ""
        THEN Goto(t, "insert", threads[t].sg, calls)
        ELSE Return(t, NoSession, "ERROR: " \o exc, FALSE, calls)
    /\ UNCHANGED <<HAS_SHOTGUN, flow_sessions, clients, heap, wire, chain, last, srv>>

\* lines 134-138: the insert and the return
LoginInsert(t) ==
    /\ threads[t].pc = "insert"
    /\ flow_sessions' = Insert(flow_sessions, KeyOf(t), threads[t].sg)
    /\ Return(t, threads[t].sg,
              CHECK \o " Connected\n" \o threads[t].args.site_url \o "\n" \o InfoOf(t),
              FALSE, threads[t].calls)
    /\ UNCHANGED <<HAS_SHOTGUN, clients, heap, wire, chain, last, srv>>

\* the arguments of a login that has its credentials
RaceArgs ==
    {[site_url |-> "https://a.example", auth_method |-> "user", script_name |-> "comfy",
      api_key |-> "", login |-> "al", password |-> p] : p \in {"s1", "s2"}}
    \cup {[site_url |-> "https://a.example", auth_method |-> "script", script_name |-> "comfy",
           api_key |-> "s1", login |-> "", password |-> ""]}

\* two calls with one identity key start on a cache that has no entry
InitRace ==
    /\ HAS_SHOTGUN = TRUE
    /\ flow_sessions = EmptyDict
    /\ clients = 0
    /\ heap = [r \in 1..MaxCtx |-> None]
    /\ wire = NoRef
    /\ chain = <<>>
    /\ last = NoCall
    /\ login_sessions = <<>>
    /\ sessions = NoSessions
    /\ pending = <<>>
    /\ logins = <<>>
    /\ \E a \in RaceArgs, b \in RaceArgs :
        /\ CacheKey(a.site_url, a.auth_method, a.script_name, a.login)
             = CacheKey(b.site_url, b.auth_method, b.script_name, b.login)
        /\ threads = <<Thread(a, "check", NoSession, NoSession, "", FALSE, <<>>),
                       Thread(b, "check", NoSession, NoSession, "", FALSE, <<>>)>>

NextRace ==
    \/ \E t \in DOMAIN threads : LoginCheck(t)
    \/ \E t \in DOMAIN threads : LoginRead(t)
    \/ \E t \in DOMAIN threads, exc \in Outcomes : LoginTest(t, exc)
    \/ \E t \in DOMAIN threads : LoginEvict(t)
    \/ \E t \in DOMAIN threads, ctor \in Outcomes : LoginConnect(t, ctor)
    \/ \E t \in DOMAIN threads, exc \in Outcomes : LoginProbe(t, exc)
    \/ \E t \in DOMAIN threads : LoginInsert(t)

SpecRace == InitRace /\ [][NextRace]_vars

----------------------------------------------------------------------------
(* Properties *)

\* the context a call was given, as it is now
Given == Deref(heap, last.flow)

\* the two messages of a switched-off publish and a switched-off note
PublishDisabled == PAUSE \o " Publish disabled\nEnable 'do_publish' to upload to Flow"
NoteNotPosted == PAUSE \o " Note not posted\nEnable 'do_post' to add note to Flow"

\* whether the last call was publish() with do_publish false, or add_note()
\* with do_post false
SwitchedOff ==
    \/ last.op = "PublishToFlow" /\ ~last.args.do_publish
    \/ last.op = "AddNote" /\ ~last.args.do_post

\* C1 as claimed: a publish with do_publish false and a note with do_post
\* false make no remote call and return an empty id with the 'disabled' /
\* 'not posted' message, whatever the other inputs are.
C1_AlwaysDisabledMessage ==
    SwitchedOff =>
        /\ last.calls = <<>>
        /\ last.id = ""
        /\ last.info = IF last.op = "PublishToFlow" THEN PublishDisabled ELSE NoteNotPosted

\* C1 amended: a publish with do_publish false and a note with do_post false
\* make no remote call and return an empty id, whatever the other inputs are;
\* the message is the 'disabled' / 'not posted' one when a context is given
\* and "ERROR: No flow data" when the context is None.
C1_SwitchedOffMakesNoCall ==
    SwitchedOff =>
        /\ last.calls = <<>>
        /\ last.id = ""
        /\ last.info = IF last.flow = NoRef THEN "ERROR: No flow data"
                       ELSE IF last.op = "PublishToFlow" THEN PublishDisabled
                       ELSE NoteNotPosted

\* C1's case: publish is switched off on a context that has everything a
\* publish needs, with a file that exists
C1_Witness ==
    /\ last.op = "PublishToFlow" /\ ~last.args.do_publish
    /\ last.args.file_path # ""
    /\ Given # None /\ Given.session # NoSession /\ Given.shot # None
    /\ last.info = PublishDisabled

\* the identity key of the login that was just made
LoginKey(args) == CacheKey(args.site_url, args.auth_method, args.script_name, args.login)
\* the login that was just made gave the credentials its method needs
Supplied(args) ==
    IF args.auth_method = "user" THEN args.login # "" /\ args.password # ""
    ELSE args.api_key # ""

\* C2: a login whose identity key is in _flow_sessions and whose probe of the
\* cached client succeeds constructs no client, makes that probe only,
\* returns the cached handle and leaves _flow_sessions as it was.
C2_CacheHit ==
    [][ (/\ last'.op = "FlowLogin"
         /\ Supplied(last'.args)
         /\ LoginKey(last'.args) \in DOMAIN flow_sessions
         /\ last'.args.remote.cached = "")
        => (/\ Constructions(last'.calls) = {}
            /\ clients' = clients
            /\ last'.calls = <<Call("find_one", "Project",
                                    flow_sessions[LoginKey(last'.args)], "")>>
            /\ last'.ret = flow_sessions[LoginKey(last'.args)]
            /\ flow_sessions' = flow_sessions) ]_vars

\* C2's case: a cache hit while the cache holds two identities
C2_Witness ==
    /\ last.op = "FlowLogin"
    /\ Cardinality(DOMAIN flow_sessions) = 2
    /\ StartsWith(last.info, CHECK \o " Connected (cached)")
    /\ last.ret = flow_sessions[LoginKey(last.args)]

\* C3: a login that finds its key in _flow_sessions and whose probe of the
\* cached client raises evicts the entry and tries exactly once to
\* authenticate; if the new client is made and its probe succeeds the key
\* maps to the new handle, which is returned; otherwise the key is absent and
\* (None, "ERROR: ...") is returned.  Other keys are untouched.
C3_ProbeFailure ==
    [][ (/\ last'.op = "FlowLogin"
         /\ Supplied(last'.args)
         /\ LoginKey(last'.args) \in DOMAIN flow_sessions
         /\ last'.args.remote.cached # "")
        => LET key == LoginKey(last'.args)
               env == last'.args.remote
           IN  /\ last'.calls[1] = Call("find_one", "Project", flow_sessions[key], env.cached)
               /\ Cardinality(Constructions(last'.calls)) = 1
               /\ \A k \in DOMAIN flow_sessions \ {key} :
                    k \in DOMAIN flow_sessions' /\ flow_sessions'[k] = flow_sessions[k]
               /\ DOMAIN flow_sessions' \subseteq DOMAIN flow_sessions
               /\ IF env.ctor = "" /\ env.probe = ""
                  THEN /\ key \in DOMAIN flow_sessions'
                       /\ flow_sessions'[key] = clients + 1
                       /\ flow_sessions'[key] # flow_sessions[key]
                       /\ last'.ret = flow_sessions'[key]
                  ELSE /\ key \notin DOMAIN flow_sessions'
                       /\ last'.ret = NoSession
                       /\ StartsWith(last'.info, "ERROR: ") ]_vars

\* C3's case: the cached client was dead, one new client was made and cached
C3_Witness ==
    /\ last.op = "FlowLogin"
    /\ Len(last.calls) = 3
    /\ last.calls[1].m = "find_one" /\ last.calls[1].exc # ""
    /\ last.calls[2].m = "Shotgun"
    /\ last.ret # NoSession
    /\ flow_sessions[LoginKey(last.args)] = last.ret

\* C4: a login with missing credentials returns (None, "ERROR...") without
\* constructing a client or probing and leaves _flow_sessions as it was; a
\* login that has to authenticate and is rejected by the service (the
\* constructor or the first probe of the new client raises) returns
\* (None, "ERROR...") and adds no entry: the entries that remain are the old
\* ones, and all of them remain when the key was not cached.
C4_FailedLogin ==
    [][ (last'.op = "FlowLogin")
        => LET args == last'.args
               env == args.remote
           IN  /\ ~Supplied(args)
                  => /\ last'.ret = NoSession
                     /\ StartsWith(last'.info, "ERROR")
                     /\ last'.calls = <<>>
                     /\ clients' = clients
                     /\ flow_sessions' = flow_sessions
               /\ (/\ Supplied(args)
                   /\ HAS_SHOTGUN
                   /\ (LoginKey(args) \notin DOMAIN flow_sessions \/ env.cached # "")
                   /\ (env.ctor # "" \/ env.probe # ""))
                  => /\ last'.ret = NoSession
                     /\ StartsWith(last'.info, "ERROR")
                     /\ DOMAIN flow_sessions' \subseteq DOMAIN flow_sessions
                     /\ \A k \in DOMAIN flow_sessions' : flow_sessions'[k] = flow_sessions[k]
                     /\ LoginKey(args) \notin DOMAIN flow_sessions
                            => flow_sessions' = flow_sessions ]_vars

\* C4's case: a user login without a password while a session of that user
\* is cached
C4_Witness ==
    /\ last.op = "FlowLogin"
    /\ last.args.auth_method = "user" /\ last.args.login # "" /\ last.args.password = ""
    /\ LoginKey(last.args) \in DOMAIN flow_sessions
    /\ last.ret = NoSession
    /\ last.calls = <<>>

\* the context a call returned, as it is now
Returned == Deref(heap, last.ret)

\* whether one of the remote calls of a list raised
SomeRaised(calls) == \E i \in DOMAIN calls : calls[i].exc # ""

\* C5 as claimed: when ShotBrowser.browse gets a context with session and
\* project from ProjectBrowser and the service returns at least one shot (and
\* no call raises), the context it returns has shot populated with the first
\* shot returned, version_number set, and resolved_filename re-derived as
\* <project name>_<sequence>_<shot code>_v<version>.
C5_ShotSelected ==
    (/\ last.op = "ShotBrowser"
     /\ Len(chain) > 0 /\ chain[1] = "ProjectBrowser"
     /\ last.args.remote.shots # <<>>
     /\ ~SomeRaised(last.calls))
    => LET shot == last.args.remote.shots[1]
           number == VersionNum(last.args.remote.versions)
       IN  /\ Returned # None
           /\ Returned.shot = ShotEntry(shot, SeqName(shot))
           /\ Returned.version_number = number
           /\ Returned.resolved_filename =
                Returned.project.name \o "_" \o SeqName(shot) \o "_" \o shot.code
                    \o "_v" \o Pad3(number)

\* C6 as claimed: a context threaded through ProjectBrowser.browse, then
\* ShotBrowser.browse (each with a match), then TaskSelector.select with the
\* service holding a matching task, comes back task-selected: task (id,
\* name) and user are populated and resolved_filename contains the task name.
C6_ReachesTaskSelected ==
    (/\ last.op = "TaskSelector"
     /\ Len(chain) >= 2 /\ chain[1] = "ProjectBrowser" /\ chain[2] = "ShotBrowser"
     /\ last.args.remote.fexc = "" /\ last.args.remote.tasks # <<>>)
    => /\ Returned # None
       /\ Returned.task = TaskEntry(last.args.remote.tasks[1])
       /\ Returned.user # None
       /\ Contains(Returned.resolved_filename, last.args.remote.tasks[1].content)

SelectionNodes == {"ProjectBrowser", "ShotBrowser", "TaskSelector"}

\* C7: every context a selection node returns has project if it has shot and
\* shot if it has task; ShotBrowser.browse on a context without session or
\* project and TaskSelector.select on a context without session or shot make
\* no remote call, return an error string and populate nothing; and no
\* ShotBrowser or TaskSelector call returns a context in which a field that
\* was populated in the context it was given is cleared.
C7_ContextGating ==
    [][ LET op == last'.op
            in == Deref(heap, last'.flow)
            out == Deref(heap', last'.ret)
        IN  op \in SelectionNodes =>
            /\ out # None =>
                /\ out.shot # None => out.project # None
                /\ out.task # None => out.shot # None
            /\ (/\ op = "ShotBrowser" /\ in # None
                /\ (in.session = NoSession \/ in.project = None))
               => /\ last'.calls = <<>>
                  /\ StartsWith(last'.info, "ERROR")
                  /\ out = None \/ out = in
            /\ (/\ op = "TaskSelector" /\ in # None
                /\ (in.session = NoSession \/ in.shot = None))
               => /\ last'.calls = <<>>
                  /\ StartsWith(last'.info, "ERROR")
                  /\ out = in
            /\ (op # "ProjectBrowser" /\ in # None /\ out # None)
               => /\ in.session # NoSession => out.session = in.session
                  /\ \A f \in {"project", "shot", "task", "user"} :
                        in[f] # None => out[f] = in[f] ]_vars

\* C7's case: a context from ProjectBrowser, without a shot, was given to
\* TaskSelector.select, which asked the service nothing
C7_Witness ==
    /\ last.op = "TaskSelector"
    /\ last.info = "ERROR: Need shot selected first"
    /\ last.calls = <<>>
    /\ Returned # None /\ Returned.project # None /\ Returned.task = None

\* C8 as claimed: after a successful selection ShotBrowser.browse and
\* TaskSelector.select return a record distinct from the one passed in.
C8_ReturnsNewRecord ==
    (\/ last.op = "ShotBrowser" /\ StartsWith(last.info, "Shot: ")
     \/ last.op = "TaskSelector" /\ StartsWith(last.info, "Task: "))
    => last.ret # last.flow

ContextReaders ==
    {"ShotBrowser", "TaskSelector", "PublishToFlow", "AddNote", "FilenameFromFlow"}

\* C9: on every path ShotBrowser.browse, TaskSelector.select,
\* PublishToFlow.publish, AddNote.add_note and FilenameFromFlow.extract leave
\* every item of the context they were given as it was.
C9_InputNeverMutated ==
    [][ (last'.op \in ContextReaders /\ last'.flow # NoRef)
        => heap'[last'.flow] = heap[last'.flow] ]_vars

\* C9's case: ShotBrowser.browse selected a shot and the context it was
\* given still has none
C9_Witness ==
    /\ last.op = "ShotBrowser"
    /\ StartsWith(last.info, "Shot: ")
    /\ Given # None /\ Given.shot = None /\ Given.resolved_filename = NoneStr

\* the calls of TaskSelector.select's optional assignment (lines 400-418)
IsAssignment(call) ==
    \/ call.m = "find_one" /\ call.t = "HumanUser"
    \/ call.m = "update" /\ call.t = "Task"

\* what C10 says of a ShotBrowser or TaskSelector call that issued remote
\* calls; `strict' says whether a raising assignment call counts as an error
SoftFailure(strict) ==
    LET in == Deref(heap, last'.flow)
        calls == last'.calls
        nothing == IF last'.op = "ShotBrowser" THEN last'.args.remote.shots = <<>>
                   ELSE last'.args.remote.tasks = <<>>
        failed == \E i \in DOMAIN calls :
                    calls[i].exc # "" /\ (strict \/ ~IsAssignment(calls[i]))
    IN  (/\ last'.op \in {"ShotBrowser", "TaskSelector"}
         /\ calls # <<>>
         /\ (SomeRaised(calls) \/ nothing))
        => /\ ~last'.raised
           /\ last'.ret = last'.flow
           /\ heap'[last'.ret] = in
           /\ last'.info # ""
           /\ failed => StartsWith(last'.info, "ERROR:")
           /\ (~failed /\ ~nothing) => /\ last'.op = "TaskSelector"
                                       /\ StartsWith(last'.info, "Task: ")
                                       /\ ~Contains(last'.info, "ERROR")

\* what C10 says of ProjectBrowser.browse
ProjectSoftFailure ==
    (/\ last'.op = "ProjectBrowser"
     /\ last'.calls # <<>>
     /\ (SomeRaised(last'.calls) \/ last'.args.remote.projects = <<>>))
    => /\ ~last'.raised
       /\ last'.ret = NoRef
       /\ wire' = NoRef
       /\ last'.info # ""

\* C10 as claimed: if a remote find or update issued by ShotBrowser.browse or
\* TaskSelector.select raises, or matches nothing, the node raises nothing and
\* returns the context it was given, unchanged, with a message that starts
\* with "ERROR:" whenever a call raised; ProjectBrowser.browse returns
\* (None, message).
C10_EveryRemoteErrorReported ==
    [][SoftFailure(TRUE) /\ ProjectSoftFailure]_vars

\* C10 amended: as claimed, except that a failure of TaskSelector.select's
\* optional assignment calls (find_one on HumanUser, update of the Task) is
\* swallowed: the context is still returned unchanged and nothing is raised,
\* but the message reports the task ("Task: ...") without "ERROR".
C10_SoftFailure ==
    [][SoftFailure(FALSE) /\ ProjectSoftFailure]_vars

\* C10's case: TaskSelector.select found its task, the assignment raised,
\* and the task is reported
C10_Witness ==
    /\ last.op = "TaskSelector"
    /\ SomeRaised(last.calls)
    /\ StartsWith(last.info, "Task: ")
    /\ last.ret = last.flow

----------------------------------------------------------------------------
(* Properties of the HTTP handlers *)

\* the handlers under /vfx-flow, by the name of their function
Handlers ==
    {"flow_login", "flow_status", "flow_logout", "get_projects", "get_sequences",
     "get_shots", "get_tasks", "get_versions", "select_entity"}
ReadHandlers ==
    {"flow_status", "get_projects", "get_sequences", "get_shots", "get_tasks", "get_versions"}
DataHandlers == ReadHandlers \ {"flow_status"}

\* whether a handler has just answered
Answered == last.op \in Handlers

\* C11: every handler under /vfx-flow answers, in every case, an object that
\* has a boolean "success" field, and an "error" field whenever success is
\* false.
C11_UniformShape ==
    Answered =>
        /\ "success" \in DOMAIN last.response
        /\ last.response.success \in BOOLEAN
        /\ ~last.response.success => "error" \in DOMAIN last.response

\* a call on the vendor client that changes what the service holds
Mutating(call) == call.m \notin {"Shotgun", "find", "find_one"}

\* C12: status, projects, sequences, shots, tasks and versions call nothing
\* but find on the vendor client; the only call of any handler that changes
\* the service is the select handler's update of a Shot, and it is made only
\* for a request of type "shot" whose set_in_progress is not false (so a
\* select of a project or a task, or one with set_in_progress false, changes
\* nothing).
C12_ReadOnly ==
    Answered =>
        /\ last.op \in ReadHandlers =>
               \A i \in DOMAIN last.calls : last.calls[i].m = "find"
        /\ \A i \in DOMAIN last.calls :
               Mutating(last.calls[i]) =>
                   /\ last.op = "select_entity"
                   /\ last.calls = <<Call("update", "Shot", last.session.sg, last.calls[i].exc)>>
                   /\ last.args.data.type = JStr("shot")
                   /\ Get(last.args.data, "set_in_progress", JBool(TRUE)) # JBool(FALSE)

\* C12's case: a select of a shot has sent its update
C12_Witness ==
    /\ last.op = "select_entity"
    /\ last.response.success
    /\ last.args.data.type = JStr("shot")
    /\ \E i \in DOMAIN last.calls : last.calls[i].m = "update" /\ last.calls[i].exc = ""

\* C13: a failure of the optional assignment inside TaskSelector.select with
\* assign_to_me true (find_one on HumanUser or update of the Task raises) and
\* a failure of the shot status update inside the select handler never make
\* the result an error: TaskSelector raises nothing and reports the task it
\* selected, with no "ERROR" in its message, and the select handler answers
\* success true with the selection stored in the session it read (which is
\* the one _login_sessions holds, unless a login has replaced it meanwhile).
C13_OptionalFailuresSwallowed ==
    /\ (/\ last.op = "TaskSelector"
        /\ \E i \in DOMAIN last.calls : IsAssignment(last.calls[i]) /\ last.calls[i].exc # "")
       => /\ last.args.assign_to_me
          /\ ~last.raised
          /\ StartsWith(last.info, "Task: " \o last.args.remote.tasks[1].content)
          /\ ~Contains(last.info, "ERROR")
    /\ (/\ last.op = "select_entity"
        /\ \E i \in DOMAIN last.calls : last.calls[i].m = "update" /\ last.calls[i].exc # "")
       => /\ last.response = [success |-> TRUE, selected |-> ("shot" :> last.args.data.id)]
          /\ Get(last.session, "selected_shot", None) = last.args.data.id
          /\ last.ret \in Refs(login_sessions) => sessions[last.ret] = last.session

\* C13's case: the select handler stored the selection of a shot, its
\* update raised, and it answered success
C13_Witness ==
    /\ last.op = "select_entity"
    /\ \E i \in DOMAIN last.calls : last.calls[i].m = "update" /\ last.calls[i].exc # ""
    /\ last.response.success
    /\ "selected_shot" \in DOMAIN sessions[last.ret]

----------------------------------------------------------------------------
(* Properties of two racing logins *)

\* both calls of login() have returned
BothDone == \A t \in DOMAIN threads : threads[t].pc = "done"
\* no remote call of either raised: both could authenticate
NoneFailed ==
    \A t \in DOMAIN threads : \A i \in DOMAIN threads[t].calls : threads[t].calls[i].exc = ""
\* the clients a call has constructed
Made(th) == {th.calls[i].sg : i \in {j \in DOMAIN th.calls : th.calls[j].m = "Shotgun"
                                                            /\ th.calls[j].exc = ""}}

\* what C14 says of a state of the two calls
RaceOutcome ==
    /\ \A t \in DOMAIN threads : ~threads[t].raised
    /\ \A k \in DOMAIN flow_sessions :
           /\ k = KeyOf(1)
           /\ flow_sessions[k] \in Made(threads[1]) \cup Made(threads[2])
    /\ (BothDone /\ NoneFailed) =>
           /\ \A t \in DOMAIN threads :
                  threads[t].ret # NoSession /\ StartsWith(threads[t].status, CHECK)
           /\ DOMAIN flow_sessions = {KeyOf(1)}
           /\ \E t \in DOMAIN threads : threads[t].ret = flow_sessions[KeyOf(1)]

\* C14: when two calls of login() with one identity key interleave on a cache
\* that has no entry for the key, no interleaving makes a call raise or leaves
\* in the cache anything but a client one of the two calls constructed; an
\* insert overwrites whatever entry the key has (the last write wins); and
\* when both calls could authenticate, each returns a client and, once both
\* have returned, the cache holds exactly one entry, for that key, whose value
\* is a client one of the two constructed and returned.
C14_RacingLogins ==
    [][/\ RaceOutcome'
       /\ \A t \in DOMAIN threads :
              (threads[t].pc = "insert" /\ threads'[t].pc = "done")
              => flow_sessions' = [k \in DOMAIN flow_sessions \cup {KeyOf(t)} |->
                                     IF k = KeyOf(t) THEN threads'[t].ret ELSE flow_sessions[k]]
      ]_vars

\* C14's case: both calls found no entry, both authenticated, and the second
\* insert has overwritten the first
C14_Witness ==
    /\ BothDone /\ NoneFailed
    /\ Made(threads[1]) # {} /\ Made(threads[2]) # {}
    /\ threads[1].ret # threads[2].ret
    /\ flow_sessions[KeyOf(1)] \in {threads[1].ret, threads[2].ret}

----------------------------------------------------------------------------
(* Properties of publish, the version number and extract *)

\* C15: PublishToFlow.publish called with do_publish true, a context that has
\* session, project and shot, and a file_path that exists calls create for a
\* "Version" exactly once, with the project and the shot as its links and
\* sg_task and user only when the context has a task and a user id, and
\* returns the new version's id as a non-empty string.
C15_PublishCreates ==
    (/\ last.op = "PublishToFlow"
     /\ last.args.do_publish
     /\ Given # None
     /\ Given.session # NoSession /\ Given.project # None /\ Given.shot # None
     /\ last.args.file_path # "" /\ last.args.exists)
    => /\ Len(last.calls) >= 1
       /\ \A i \in DOMAIN last.calls : (last.calls[i].m = "create") = (i = 1)
       /\ last.calls[1].t = "Version"
       /\ last.calls[1].data.project = [type |-> "Project", id |-> Given.project.id]
       /\ last.calls[1].data.entity = [type |-> "Shot", id |-> Given.shot.id]
       /\ ("sg_task" \in DOMAIN last.calls[1].data) = (Given.task # None)
       /\ ("user" \in DOMAIN last.calls[1].data)
              = (Given.user # None /\ Get(Given.user, "id", NoneInt) \notin {NoneInt, 0})
       /\ last.id # ""

----------------------------------------------------------------------------
(* Properties of the server's sessions *)

\* C16: the logout handler leaves _login_sessions empty whatever it held;
\* while it is empty, status answers logged_in false and each of projects,
\* sequences, shots, tasks, versions and select answers success false with
\* the error "Not logged in" and makes no remote call; it stays empty until
\* a login succeeds; and a login that fails (malformed body, no site URL, no
\* credentials, an exception of the vendor client) leaves _login_sessions as
\* it was.
C16_LogoutClears ==
    [][/\ last'.op = "flow_logout" =>
              login_sessions' = <<>> /\ last'.response = [success |-> TRUE]
       /\ (login_sessions = <<>> /\ Len(pending') = Len(pending)) =>
              /\ last'.op = "flow_status" =>
                     last'.response = [logged_in |-> FALSE] /\ last'.calls = <<>>
              /\ last'.op \in DataHandlers \cup {"select_entity"} =>
                     /\ ~last'.response.success
                     /\ last'.response.error = "Not logged in"
                     /\ last'.calls = <<>>
       /\ (login_sessions = <<>> /\ login_sessions' # <<>>) =>
              last'.op = "flow_login" /\ last'.response.success
       /\ (last'.op = "flow_login" /\ ~last'.response.success) =>
              login_sessions' = login_sessions /\ sessions' = sessions
      ]_vars

\* C16's case: after a login and a logout (a select that began in between
\* still awaits its body) the projects handler has answered "Not logged in"
C16_Witness ==
    /\ login_sessions = <<>>
    /\ pending # <<>>
    /\ last.op = "get_projects"
    /\ last.response = [success |-> FALSE, error |-> "Not logged in", projects |-> <<>>]
    /\ last.calls = <<>>

\* the decimal digits of n >= 0, with zeros in front up to three digits
Rendered(n) ==
    CHOOSE d \in {ToString(n), "0" \o ToString(n), "00" \o ToString(n)} :
        /\ Len(d) >= 3
        /\ Len(d) > 3 => SubSeq(d, 1, 1) # "0"

\* C17: when ShotBrowser.browse selects a shot, the version number is 1 if
\* the query for the shot's versions (ordered by version_number descending,
\* limit 1) returned nothing, and otherwise the first result's version_number,
\* a missing or null one counting as 0, plus 1; the info has the line
\* "Next Version: v" followed by that number with zeros in front up to three
\* digits, and the filename derived for the context ends in "_v" and the same
\* digits.
C17_NextVersion ==
    [][(last'.op = "ShotBrowser" /\ StartsWith(last'.info, "Shot: ")) =>
          \E versions \in {last'.args.remote.versions}, shot \in {last'.args.remote.shots[1]} :
            \E number \in {IF versions = <<>> THEN 1
                           ELSE IF "version_number" \notin DOMAIN versions[1] THEN 1
                           ELSE IF versions[1].version_number = NoneInt THEN 1
                           ELSE versions[1].version_number + 1} :
              \E digits \in {Rendered(number)},
                 pipe \in {ShotPipe(heap, wire, heap[wire].project, shot, versions)} :
                \E head \in {"Shot: " \o shot.code \o "\nSequence: " \o SeqName(shot)
                               \o "\nStatus: "
                               \o (IF last'.args.set_in_progress THEN "In Progress"
                                   ELSE Get(shot, "sg_status_list", "N/A"))
                               \o "\nNext Version: v" \o digits} :
                  /\ StartsWith(last'.info, head)
                  /\ last'.info = head \/ StartsWith(last'.info, head \o "\n")
                  /\ IsDigits(digits) /\ ParseInt(digits) = number
                  /\ pipe.heap[pipe.ref].version_number = number
                  /\ pipe.heap[pipe.ref].resolved_filename
                       = heap[wire].project.name \o "_" \o SeqName(shot) \o "_" \o shot.code
                           \o "_v" \o digits
                  /\ number = 1 => digits = "001"
                  /\ number = 12 => digits = "012"
                  /\ number = 1000 => digits = "1000"
      ]_vars

\* C17's case: the shot's highest version is 999 and the info says v1000
C17_Witness ==
    /\ last.op = "ShotBrowser"
    /\ last.args.remote.versions # <<>>
    /\ Get(last.args.remote.versions[1], "version_number", NoneInt) = 999
    /\ StartsWith(last.info, "Shot: sh010\nSequence: sq01\nStatus: In Progress\nNext Version: v1000")

\* C18: for any context that is not None, one that comes straight from
\* ProjectBrowser.browse included (no shot, task or resolved filename yet),
\* FilenameFromFlow.extract returns without raising; the filename is
\* "output", plus the suffix if any, when the context has no resolved
\* filename, and the output folder is the base path, then the project's name
\* or "project", the sequence or "SEQ", and the shot's code or "shot".
C18_PlaceholderOutputs ==
    (last.op = "FilenameFromFlow" /\ Given # None) =>
        LET project == IF Given.project = None THEN EmptyDict ELSE Given.project
            shot == IF Given.shot = None THEN EmptyDict ELSE Given.shot
        IN  /\ ~last.raised
            /\ Given.resolved_filename = NoneStr =>
                   last.filename = "output" \o last.args.suffix
            /\ last.output_folder
                 = Join2(Join2(Join2(ExpandUser(last.args.base_path),
                                     Get(project, "name", "project")),
                               Get(shot, "sequence", "SEQ")),
                         Get(shot, "code", "shot"))

\* C19: however the select and logout handlers interleave, once the logout
\* handler has completed a select handler that goes on (it read the active
\* session before it awaited the request body) sends no update to the
\* service and stores no selection in the session that logout has removed.
C19_NothingForRemovedSession ==
    [][(/\ login_sessions = <<>>
        /\ last'.op = "select_entity"
        /\ Len(pending') < Len(pending))
       => /\ \A i \in DOMAIN last'.calls : ~Mutating(last'.calls[i])
          /\ \E i \in DOMAIN pending :
                 [last'.session EXCEPT !.sg = NoSession]
                   = [sessions[pending[i]] EXCEPT !.sg = NoSession]
      ]_vars

\* the identity key of a login request
RequestKey(data) ==
    CacheKey(Get(data, "site_url", ""), Get(data, "auth_method", "user"),
             Get(data, "script_name", ""), Get(data, "login", ""))
\* the identity keys of a dictionary of sessions, in its order
KeyOrder(d) == [i \in DOMAIN d |-> d[i].key]

\* what C20 says of a state: _login_sessions holds the identities that have
\* logged in since the last logout, in the order of their first login, each
\* with the client and user of its latest login; status and the data
\* handlers use the first of them
FirstIdentityActive ==
    /\ KeyOrder(login_sessions) = KeyOrder(logins)
    /\ \A i \in DOMAIN login_sessions :
           /\ login_sessions[i].sg = logins[i].sg
           /\ sessions[login_sessions[i].sg].user_name = logins[i].user_name
    /\ (last.op = "flow_status" /\ logins # <<>>) =>
           /\ last.response.logged_in
           /\ last.response.user_name = logins[1].user_name
    /\ last.op \in DataHandlers =>
           \A i \in DOMAIN last.calls : last.calls[i].sg = logins[1].sg

\* C20: with sessions stored under several identity keys the active session
\* is the earliest-inserted entry still present: after any logins without a
\* logout in between, the user status reports and the client every data
\* handler uses are those of the first distinct identity that logged in, not
\* of the latest login; and a login whose identity key is already stored puts
\* its new client in that entry, where it is, and the same entry stays first.
C20_FirstIdentityActive ==
    [][/\ FirstIdentityActive'
       /\ (last'.op = "flow_login" /\ last'.response.success) =>
              \E key \in {RequestKey(last'.args.data)} :
                  /\ KeyOrder(login_sessions')
                       = IF key \in Keys(login_sessions) THEN KeyOrder(login_sessions)
                         ELSE Append(KeyOrder(login_sessions), key)
                  /\ login_sessions # <<>> => login_sessions'[1].key = login_sessions[1].key
                  /\ \E i \in DOMAIN login_sessions' :
                         /\ login_sessions'[i].key = key
                         /\ login_sessions'[i].sg = last'.ret
                         /\ last'.calls[1] = Call("Shotgun", Get(last'.args.data, "auth_method", "user"),
                                                  last'.ret, "")
      ]_vars

\* C20's case: two identities are logged in and status has reported the
\* first one's user, which is not the user of the latest login
C20_Witness ==
    /\ Len(login_sessions) >= 2
    /\ last.op = "flow_status"
    /\ last.response.user_name = sessions[login_sessions[1].sg].user_name
    /\ last.response.user_name # sessions[login_sessions[Len(login_sessions)].sg].user_name

----------------------------------------------------------------------------
(* Properties of the secret in FlowLogin.login *)

\* the secret a login gave: the password or the API key, by its method
SecretOf(args) == IF args.auth_method = "user" THEN args.password ELSE args.api_key
\* the arguments of a login without that secret
SecretLess(args) ==
    [site_url |-> args.site_url, auth_method |-> args.auth_method,
     script_name |-> args.script_name, login |-> args.login,
     other |-> IF args.auth_method = "user" THEN args.api_key ELSE args.password]
\* the login that was just made found its key in the cache and the probe of
\* the cached client succeeded
LiveHit(call) ==
    /\ call.op = "FlowLogin"
    /\ Supplied(call.args)
    /\ StartsWith(call.info, CHECK \o " Connected (cached)")
\* what login() would have returned in this state had the secret been `s'
WithSecret(args, s) ==
    Login(HAS_SHOTGUN, flow_sessions, clients, args.site_url, args.auth_method,
          args.script_name, IF args.auth_method = "user" THEN args.api_key ELSE s,
          args.login, IF args.auth_method = "user" THEN s ELSE args.password,
          args.remote.cached, args.remote.ctor, args.remote.probe)

\* C21: the identity key of login() has the site URL, the method and the
\* login or script name, and not the password or the API key: a login that
\* finds its key in _flow_sessions with a live client returns, whatever
\* non-empty secret it is given, the same handle and the same status, and two
\* such logins in a row that differ only in the secret return the same handle
\* and status; the login constructs no client, so its secret is sent to
\* nothing: its only remote call is the probe on the cached client.
C21_SecretIgnoredOnHit ==
    [][/\ (/\ last'.op = "FlowLogin"
           /\ Supplied(last'.args)
           /\ LoginKey(last'.args) \in DOMAIN flow_sessions
           /\ last'.args.remote.cached = "")
          => /\ \A s \in LoginSecrets \ {""} :
                    \E r \in {WithSecret(last'.args, s)} :
                        /\ r.ret = last'.ret
                        /\ r.status = last'.info
                        /\ r.calls = last'.calls
                        /\ r.sessions = flow_sessions'
             /\ Constructions(last'.calls) = {}
             /\ last'.calls = <<Call("find_one", "Project", last'.ret, "")>>
             /\ last'.info = CHECK \o " Connected (cached)\n" \o last'.args.site_url \o "\n"
                               \o AuthInfo(last'.args.auth_method, last'.args.script_name,
                                           last'.args.login)
       /\ (/\ LiveHit(last)
           /\ last'.op = "FlowLogin"
           /\ SecretLess(last'.args) = SecretLess(last.args)
           /\ SecretOf(last'.args) \notin {"", SecretOf(last.args)}
           /\ last'.args.remote.cached = "")
          => /\ last'.ret = last.ret
             /\ last'.info = last.info
             /\ last'.calls = last.calls
             /\ flow_sessions' = flow_sessions
      ]_vars

\* C21's case: a login with the secret "s2" has hit the entry of a client
\* that is cached under its key and got that client
C21_Witness ==
    /\ LiveHit(last)
    /\ SecretOf(last.args) = "s2"
    /\ last.ret # NoSession
    /\ last.ret = flow_sessions[LoginKey(last.args)]
    /\ last.calls = <<Call("find_one", "Project", last.ret, "")>>

====
